---- MODULE Spec2Model ----
(***************************************************************************)
(* A model of the velarixdb storage pipeline: the size-tiered BucketMap,   *)
(* the Flusher, the SSTable file format, the ValueLog and its garbage      *)
(* collector.                                                              *)
(***************************************************************************)
EXTENDS Integers, Sequences, FiniteSets, TLC

VARIABLES
    buckets,    \* BucketMap.buckets: bucket id -> [avarage_size, sstables]
    disk,       \* data files on disk: file path <<bucket id, ms>> -> length in bytes
    ndirs,      \* number of bucket directories created so far (ids 1..ndirs)
    now,        \* wall clock in milliseconds (names the SSTable files)
    extracted,  \* value returned by the last extract_buckets_to_compact, not yet consumed
    vfile,      \* the VLOG file: the sequence of value log entries it holds
    vlog,       \* the engine's ValueLog: [head_offset, tail_offset, size]
    gc_log,     \* the cursor of the ValueLog handle the GC cycle works on
    index,      \* key -> [value_offset, is_tombstone]: memtables and SSTables as one lookup
    gc_updated_entries, \* key -> new offset, published by GC cycles, not yet merged
    punch_marker,       \* end of the last hole-punched region
    gc_task,    \* the GC cycle in progress: the chunk it read and the entries it found live
    writes,     \* number of client writes (put, delete) so far
    tasks,      \* flush_handler tasks: table id -> [pc, entries, sstable_path, result]
    read_only_memtable, \* ids of the sealed memtables, in insertion order (IndexMap)
    key_range,  \* KeyRange: data file path -> [smallest_key, biggest_key]
    bloom_filters,      \* the shared Vec<BloomFilter>: [table, sstable_path] each
    flush_signal,       \* flush signals queued in the broadcast channel
    guards,     \* the RwLock guards held on the shared structures: writers and readers
    sst,        \* one SSTable: the entries it was built from, its data file, its sparse index
    tmp_file,   \* the bytes of a file GC::punch_holes is called on
    last        \* the last call: its kind, outcome, arguments and what it was given

bstate == <<buckets, disk, ndirs, now, extracted>>

gstate == <<vfile, vlog, gc_log, index, gc_updated_entries, punch_marker, gc_task,
            writes>>

fstate == <<tasks, read_only_memtable, key_range, bloom_filters, flush_signal, guards>>

vars == <<bstate, gstate, fstate, sst, tmp_file, last>>

(***************************************************************************)
(* Program constants of bucket_coordinator.rs.  BUCKET_LOW = 0.5 and       *)
(* BUCKET_HIGH = 1.5 are kept as the fractions 1/2 and 3/2.                *)
(***************************************************************************)
MIN_SSTABLE_SIZE == 32
MIN_TRESHOLD == 4
MAX_TRESHOLD == 32

(***************************************************************************)
(* Bounds of the model.                                                    *)
(***************************************************************************)
MaxTables == 3          \* SSTable entries over all buckets, mixed-size runs
MaxNow == 2             \* last clock value, mixed-size runs
MaxFailed == 1          \* failed SSTable writes, mixed-size runs
ExtraTables == 2        \* entries beyond MAX_TRESHOLD, compaction runs

\* memtable.size() of the tables offered to the BucketMap
Sizes == {10, 31, 46, 51, 100}
\* the one table size used by the compaction runs
CompactSize == 100

None == [op |-> "none"]

Range(s) == {s[i] : i \in 1..Len(s)}

(***************************************************************************)
(* BucketMap::insert_to_appropriate_bucket                                 *)
(***************************************************************************)

\* the bucket test of the for loop: f64 products, the upper one cast to usize
Matches(avg, size) ==
    \/ /\ avg < 2 * size
       /\ size < (3 * avg) \div 2
    \/ /\ size < MIN_SSTABLE_SIZE
       /\ avg < MIN_SSTABLE_SIZE

\* SSTable::new: sstable_<ms>_.db inside the bucket directory
DataFilePath(b, ms) == <<b, ms>>

FileLen(d, p) == IF p \in DOMAIN d THEN d[p] ELSE 0

\* OpenOptions append+create, then write_to_file appends `bytes` bytes
AppendFile(d, p, bytes) ==
    [q \in DOMAIN d \cup {p} |-> IF q = p THEN FileLen(d, p) + bytes ELSE d[q]]

IncreaseHotness(ssts) ==
    [i \in 1..Len(ssts) |-> [ssts[i] EXCEPT !.hotness = @ + 1]]

RECURSIVE SumLen(_, _)
SumLen(d, ssts) ==
    IF ssts = <<>> THEN 0
    ELSE FileLen(d, Head(ssts).file_path) + SumLen(d, Tail(ssts))

\* fs::metadata(path).unwrap() succeeds for every member
AllOnDisk(d, ssts) == \A i \in 1..Len(ssts) : ssts[i].file_path \in DOMAIN d

AverageSize(d, ssts) == SumLen(d, ssts) \div Len(ssts)

\* mutant: the hotness loop runs over the members of every bucket of the map
InsertExisting_all_hot(b, t, hotness, wr, ms) ==
    LET path == DataFilePath(b, ms)
        sstable_path == [file_path |-> path, hotness |-> hotness]
    IN  /\ ndirs' = ndirs
        /\ IF wr = "fail"
           THEN /\ disk' = AppendFile(disk, path, 0)
                /\ buckets' = buckets
                /\ last' = [op |-> "insert", status |-> "err", bucket |-> b,
                            table |-> t, path |-> path, created |-> FALSE,
                            before |-> buckets]
           ELSE LET d2 == AppendFile(disk, path, t.bytes)
                    ssts == IncreaseHotness(Append(buckets[b].sstables, sstable_path))
                IN  /\ disk' = d2
                    /\ IF AllOnDisk(d2, ssts)
                       THEN /\ buckets' = [c \in DOMAIN buckets |->
                                   IF c = b
                                   THEN [avarage_size |-> AverageSize(d2, ssts),
                                         sstables |-> ssts]
                                   ELSE [buckets[c] EXCEPT
                                            !.sstables = IncreaseHotness(@)]]
                            /\ last' = [op |-> "insert", status |-> "ok", bucket |-> b,
                                        table |-> t, path |-> path, created |-> FALSE,
                                        returned |-> sstable_path, before |-> buckets]
                       ELSE /\ buckets' = [buckets EXCEPT ![b].sstables = ssts]
                            /\ last' = [op |-> "insert", status |-> "panic", bucket |-> b,
                                        table |-> t, path |-> path, created |-> FALSE,
                                        before |-> buckets]

\* the branch taken when bucket b passes the test
InsertExisting(b, t, hotness, wr, ms) ==
    LET path == DataFilePath(b, ms)
        sstable_path == [file_path |-> path, hotness |-> hotness]
    IN  /\ ndirs' = ndirs
        /\ IF wr = "fail"
           THEN /\ disk' = AppendFile(disk, path, 0)
                /\ buckets' = buckets
                /\ last' = [op |-> "insert", status |-> "err", bucket |-> b,
                            table |-> t, path |-> path, created |-> FALSE,
                            before |-> buckets]
           ELSE LET d2 == AppendFile(disk, path, t.bytes)
                    ssts == IncreaseHotness(Append(buckets[b].sstables, sstable_path))
                IN  /\ disk' = d2
                    /\ IF AllOnDisk(d2, ssts)
                       THEN /\ buckets' = [buckets EXCEPT
                                   ![b] = [avarage_size |-> AverageSize(d2, ssts),
                                           sstables |-> ssts]]
                            /\ last' = [op |-> "insert", status |-> "ok", bucket |-> b,
                                        table |-> t, path |-> path, created |-> FALSE,
                                        returned |-> sstable_path, before |-> buckets]
                       ELSE /\ buckets' = [buckets EXCEPT ![b].sstables = ssts]
                            /\ last' = [op |-> "insert", status |-> "panic", bucket |-> b,
                                        table |-> t, path |-> path, created |-> FALSE,
                                        before |-> buckets]

\* the branch taken when no bucket passes the test: Bucket::new, then the write
InsertNew(t, wr, ms) ==
    LET b == ndirs + 1
        path == DataFilePath(b, ms)
        sstable_path == [file_path |-> path, hotness |-> 1]
    IN  /\ ndirs' = b
        /\ IF wr = "fail"
           THEN /\ disk' = AppendFile(disk, path, 0)
                /\ buckets' = buckets
                /\ last' = [op |-> "insert", status |-> "err", bucket |-> b,
                            table |-> t, path |-> path, created |-> FALSE,
                            before |-> buckets]
           ELSE LET d2 == AppendFile(disk, path, t.bytes)
                IN  /\ disk' = d2
                    /\ buckets' = buckets @@
                           (b :> [avarage_size |-> FileLen(d2, path),
                                  sstables |-> <<sstable_path>>])
                    /\ last' = [op |-> "insert", status |-> "ok", bucket |-> b,
                                table |-> t, path |-> path, created |-> TRUE,
                                returned |-> sstable_path, before |-> buckets]

MatchingBuckets(size) ==
    {b \in DOMAIN buckets : Matches(buckets[b].avarage_size, size)}

\* HashMap iteration order is unspecified: any matching bucket may come first
insert_to_appropriate_bucket(t, hotness, wr, dt) ==
    /\ now' = now + dt
    /\ extracted' = extracted
    /\ IF MatchingBuckets(t.size) # {}
       THEN \E b \in MatchingBuckets(t.size) : InsertExisting(b, t, hotness, wr, now + dt)
       ELSE InsertNew(t, wr, now + dt)

(***************************************************************************)
(* BucketMap::extract_buckets_to_compact                                   *)
(***************************************************************************)

\* the filter: buckets holding at least MIN_TRESHOLD SSTables
SelectedBuckets == {b \in DOMAIN buckets : Len(buckets[b].sstables) >= MIN_TRESHOLD}

\* b.sstables[0..MAX_TRESHOLD] is in range for every selected bucket
SliceInRange(bs) == \A b \in bs : Len(buckets[b].sstables) >= MAX_TRESHOLD

\* buckets_to_compact, keyed by bucket id
BucketsToCompact ==
    [b \in SelectedBuckets |-> SubSeq(buckets[b].sstables, 1, MAX_TRESHOLD)]

\* sstables_to_delete, keyed by bucket id: pushed only when len > MAX_TRESHOLD
SSTablesToDelete ==
    [b \in {c \in SelectedBuckets : Len(buckets[c].sstables) > MAX_TRESHOLD} |->
        SubSeq(buckets[b].sstables, 1, MAX_TRESHOLD)]

extract_buckets_to_compact ==
    /\ IF SliceInRange(SelectedBuckets)
       THEN /\ extracted' = [op |-> "extract", compact |-> BucketsToCompact,
                             delete |-> SSTablesToDelete]
            /\ last' = [op |-> "extract", status |-> "ok"]
       ELSE /\ extracted' = extracted
            /\ last' = [op |-> "extract", status |-> "panic"]
    /\ UNCHANGED <<buckets, disk, ndirs, now>>

(***************************************************************************)
(* BucketMap::delete_sstables                                              *)
(***************************************************************************)

\* the survivors the first loop stores back: bucket.sstables[0..MAX_TRESHOLD]
SSTablesRemaining(ssts) == SubSeq(ssts, 1, MAX_TRESHOLD)

\* the second loop: fs::remove_file on every listed path
RemoveFiles(d, paths) == [q \in DOMAIN d \ paths |-> d[q]]

DeletedPaths(del) ==
    UNION {{del[b][i].file_path : i \in 1..Len(del[b])} : b \in DOMAIN del}

delete_sstables(del) ==
    /\ IF \A b \in DOMAIN del : Len(buckets[b].sstables) >= MAX_TRESHOLD
       THEN /\ buckets' = [b \in DOMAIN buckets |->
                   IF b \in DOMAIN del
                   THEN [buckets[b] EXCEPT !.sstables = SSTablesRemaining(@)]
                   ELSE buckets[b]]
            /\ disk' = RemoveFiles(disk, DeletedPaths(del))
            /\ last' = [op |-> "delete", status |-> "ok", compact |-> extracted.compact,
                        delete |-> del, before |-> buckets, disk_before |-> disk]
       ELSE /\ UNCHANGED <<buckets, disk>>
            /\ last' = [op |-> "delete", status |-> "panic"]
    /\ extracted' = None
    /\ UNCHANGED <<ndirs, now>>

(***************************************************************************)
(* ValueLog (v_log.rs)                                                     *)
(***************************************************************************)

\* key_len u32 + value_len u32 + created_at u64 + is_tombstone u8
HeaderLen == 17

\* mutant: the two length prefixes written as 8-byte usize
EntrySizeWide(e) == HeaderLen + 8 + Len(e.key) + Len(e.value)

\* ValueLogEntry::serialize().len()
EntrySize(e) == HeaderLen + Len(e.key) + Len(e.value)

\* an entry of the file, with the byte position at which it starts
ValueLogEntry(key, value, is_tombstone, pos) ==
    [key |-> key, value |-> value, is_tombstone |-> is_tombstone, pos |-> pos,
     punched |-> FALSE]

\* the length of the file in bytes
FileSize(f) == IF f = <<>> THEN 0 ELSE f[Len(f)].pos + EntrySize(f[Len(f)])

\* the byte position at which entry i of the file starts (the end of file for i = Len+1)
PhysOff(f, i) == IF i > Len(f) THEN FileSize(f) ELSE f[i].pos

\* the entries that start at byte position off (at most one)
EntryAt(f, off) == {i \in 1..Len(f) : f[i].pos = off}

\* ValueLog::new
NewValueLog == [head_offset |-> 0, tail_offset |-> 0, size |-> 0]

\* mutant: the append also moves the tail cursor to the record it wrote
append_moves_tail(log, f, key, value, is_tombstone, wr) ==
    LET e == ValueLogEntry(key, value, is_tombstone, FileSize(f))
    IN  [offset |-> log.size,
         log |-> [log EXCEPT !.size = @ + EntrySize(e), !.tail_offset = log.size],
         file |-> IF wr = "ok" THEN Append(f, e) ELSE f]

\* mutant: the offset handed back is the head cursor, not the size before the write
append_at_head(log, f, key, value, is_tombstone, wr) ==
    LET e == ValueLogEntry(key, value, is_tombstone, FileSize(f))
    IN  [offset |-> log.head_offset,
         log |-> [log EXCEPT !.size = @ + EntrySize(e)],
         file |-> IF wr = "ok" THEN Append(f, e) ELSE f]

\* mutant: the offset handed back is the end of the record, not its start
append_returns_end(log, f, key, value, is_tombstone, wr) ==
    LET e == ValueLogEntry(key, value, is_tombstone, FileSize(f))
    IN  [offset |-> log.size + EntrySize(e),
         log |-> [log EXCEPT !.size = @ + EntrySize(e)],
         file |-> IF wr = "ok" THEN Append(f, e) ELSE f]

\* ValueLog::append: the write's result is dropped, size advances either way
append(log, f, key, value, is_tombstone, wr) ==
    LET e == ValueLogEntry(key, value, is_tombstone, FileSize(f))
    IN  [offset |-> log.size,
         log |-> [log EXCEPT !.size = @ + EntrySize(e)],
         file |-> IF wr = "ok" THEN Append(f, e) ELSE f]

\* ValueLog::get: the entry that starts at start_offset; a punched range reads as zeros
get(f, start_offset) ==
    IF EntryAt(f, start_offset) = {}
    THEN [kind |-> "unreadable"]
    ELSE LET e == f[CHOOSE i \in EntryAt(f, start_offset) : TRUE]
         IN  IF e.punched
             THEN [kind |-> "zeros"]
             ELSE [kind |-> "value", value |-> e.value, is_tombstone |-> e.is_tombstone]

\* mutant: size is reset with the tail, the head is forgotten
clear_all_keeps_head(log) == [log EXCEPT !.tail_offset = 0, !.size = 0]

\* ValueLog::clear_all: the file is removed, the two cursors are reset, size is kept
clear_all(log) == [log EXCEPT !.tail_offset = 0, !.head_offset = 0]

\* mutant: the setter writes the other cursor
set_head_writes_tail(log, head) == [log EXCEPT !.tail_offset = head]

\* ValueLog::set_head
set_head(log, head) == [log EXCEPT !.head_offset = head]

\* mutant: the setter stores nothing
set_tail_ignored(log, tail) == log

\* ValueLog::set_tail
set_tail(log, tail) == [log EXCEPT !.tail_offset = tail]

RECURSIVE ChunkLast(_, _, _, _)
ChunkLast(f, i, acc, bytes_to_collect) ==
    IF i >= Len(f) THEN Len(f)
    ELSE IF acc + EntrySize(f[i]) >= bytes_to_collect THEN i
    ELSE ChunkLast(f, i + 1, acc + EntrySize(f[i]), bytes_to_collect)

\* mutant: the scan stops at the budget, inside the record it is reading
read_chunk_within_budget(f, tail_offset, bytes_to_collect) ==
    IF EntryAt(f, tail_offset) = {}
    THEN [first |-> 1, last |-> 0, total_bytes_read |-> 0]
    ELSE LET first == CHOOSE i \in EntryAt(f, tail_offset) : TRUE
             lst == ChunkLast(f, first, 0, bytes_to_collect)
             whole == PhysOff(f, lst + 1) - tail_offset
         IN  [first |-> first, last |-> lst,
              total_bytes_read |-> IF whole > bytes_to_collect THEN bytes_to_collect
                                   ELSE whole]

\* mutant: the bytes of the last entry read are left out of the count
read_chunk_undercounting(f, tail_offset, bytes_to_collect) ==
    IF EntryAt(f, tail_offset) = {}
    THEN [first |-> 1, last |-> 0, total_bytes_read |-> 0]
    ELSE LET first == CHOOSE i \in EntryAt(f, tail_offset) : TRUE
             lst == ChunkLast(f, first, 0, bytes_to_collect)
         IN  [first |-> first, last |-> lst,
              total_bytes_read |-> PhysOff(f, lst) - tail_offset]

\* ValueLog::read_chunk_to_garbage_collect from tail_offset: whole entries until the
\* bytes read reach bytes_to_collect; [first, last] are entry numbers in the file
read_chunk_to_garbage_collect(f, tail_offset, bytes_to_collect) ==
    IF EntryAt(f, tail_offset) = {}
    THEN [first |-> 1, last |-> 0, total_bytes_read |-> 0]
    ELSE LET first == CHOOSE i \in EntryAt(f, tail_offset) : TRUE
             lst == ChunkLast(f, first, 0, bytes_to_collect)
         IN  [first |-> first, last |-> lst,
              total_bytes_read |-> PhysOff(f, lst + 1) - tail_offset]

VlogInit ==
    /\ vfile = <<>>
    /\ vlog = NewValueLog
    /\ gc_log = [head_offset |-> 0, tail_offset |-> 0]
    /\ index = <<>>
    /\ gc_updated_entries = <<>>
    /\ punch_marker = 0
    /\ gc_task = None
    /\ writes = 0

(***************************************************************************)
(* Flusher::flush and Flusher::flush_handler.  Every write guard of flush  *)
(* is a temporary of one statement, so a task holds no lock between two    *)
(* of the steps below and any other task or reader may run in between.     *)
(***************************************************************************)
MaxFlush == 2           \* sealed memtables handed to flush_handler
ChannelCap == 1         \* capacity of the flush-signal broadcast channel

\* the ids of the memtables sealed so far
TableIds == DOMAIN tasks

\* the keys a sealed memtable may hold; the empty table is the rejected one
EntrySets == {{}, {1}, {2}, {1, 3}}

\* memtable.size() of a sealed table: 30 bytes per entry
TableSize(entries) == 30 * Cardinality(entries)

Min(S) == CHOOSE x \in S : \A y \in S : x <= y
Max(S) == CHOOSE x \in S : \A y \in S : x >= y

MaxLockTasks == 2       \* flush_handler tasks in the runs with readers

\* the tokio RwLocks the flusher and the readers share
Locks == {"memtable", "bucket_map", "key_range", "bloom_filters", "read_only_memtable"}

\* the readers of the shared structures in those runs
Readers == {"reader"}

\* writer: the flush task that holds the write guard of a lock (0: none);
\* reader: the lock a reader holds the read guard of
NoGuards == [writer |-> [l \in Locks |-> 0], reader |-> [r \in Readers |-> "none"]]

FlushInit ==
    /\ tasks = <<>>
    /\ read_only_memtable = <<>>
    /\ key_range = <<>>
    /\ bloom_filters = <<>>
    /\ flush_signal = 0
    /\ guards = NoGuards

\* mutant: the emptiness test is gone
NeverEmpty(entries) == FALSE

\* table.read().await.entries.is_empty()
IsEmptyTable(entries) == entries = {}

\* KeyRange::set: the entry of data_file_path is replaced
KeyRangeSet(kr, data_file_path, smallest, biggest) ==
    [q \in DOMAIN kr \cup {data_file_path} |->
        IF q = data_file_path THEN [smallest_key |-> smallest, biggest_key |-> biggest]
        ELSE kr[q]]

\* Vec::sort_by on b.hotness.cmp(a.hotness): stable, descending
RECURSIVE InsertSorted(_, _)
InsertSorted(sorted, f) ==
    IF sorted = <<>> THEN <<f>>
    ELSE IF Head(sorted).sstable_path.hotness >= f.sstable_path.hotness
         THEN <<Head(sorted)>> \o InsertSorted(Tail(sorted), f)
         ELSE <<f>> \o sorted

RECURSIVE SortByHotness(_)
SortByHotness(fs) ==
    IF fs = <<>> THEN <<>>
    ELSE InsertSorted(SortByHotness(SubSeq(fs, 1, Len(fs) - 1)), fs[Len(fs)])

\* IndexMap::shift_remove
ShiftRemove(reg, id) == SelectSeq(reg, LAMBDA x : x # id)

\* the engine seals a memtable, enters it in the registry and calls flush_handler;
\* table ids are handed out in increasing order
Seal(t, entries) ==
    /\ t = Len(tasks) + 1
    /\ tasks' = Append(tasks, [pc |-> "check", entries |-> entries,
                               sstable_path |-> None, result |-> "none"])
    /\ read_only_memtable' = Append(read_only_memtable, t)
    /\ UNCHANGED last
    /\ UNCHANGED <<key_range, bloom_filters, flush_signal>>
    /\ UNCHANGED <<bstate, gstate, sst, tmp_file>>

\* mutant: the rejected table is taken out of the registry
FlushCheck_unregisters(t) ==
    /\ tasks[t].pc = "check"
    /\ IF IsEmptyTable(tasks[t].entries)
       THEN /\ tasks' = [tasks EXCEPT ![t].pc = "failed", ![t].result = "err"]
            /\ read_only_memtable' = ShiftRemove(read_only_memtable, t)
       ELSE /\ tasks' = [tasks EXCEPT ![t].pc = "insert"]
            /\ read_only_memtable' = read_only_memtable
    /\ UNCHANGED last
    /\ UNCHANGED <<key_range, bloom_filters, flush_signal>>
    /\ UNCHANGED <<bstate, gstate, sst, tmp_file>>

\* flush, lines 77 to 82: the empty table is rejected before anything is touched
FlushCheck(t) ==
    /\ tasks[t].pc = "check"
    /\ IF IsEmptyTable(tasks[t].entries)
       THEN tasks' = [tasks EXCEPT ![t].pc = "failed", ![t].result = "err"]
       ELSE tasks' = [tasks EXCEPT ![t].pc = "insert"]
    /\ UNCHANGED last
    /\ UNCHANGED <<read_only_memtable, key_range, bloom_filters, flush_signal>>
    /\ UNCHANGED <<bstate, gstate, sst, tmp_file>>

\* flush, lines 88 to 93: the insert under the BucketMap write lock, `?` on its error
FlushInsert(t, wr, dt) ==
    /\ tasks[t].pc = "insert"
    /\ insert_to_appropriate_bucket(
           [size |-> TableSize(tasks[t].entries), bytes |-> TableSize(tasks[t].entries)],
           1, wr, dt)
    /\ tasks' = [tasks EXCEPT ![t] =
          IF last'.status = "ok"
          THEN [@ EXCEPT !.pc = "key_range", !.sstable_path = last'.returned]
          ELSE IF last'.status = "err"
               THEN [@ EXCEPT !.pc = "failed", !.result = "err"]
               ELSE [@ EXCEPT !.pc = "panicked", !.result = "panic"]]
    /\ UNCHANGED <<read_only_memtable, key_range, bloom_filters, flush_signal>>
    /\ UNCHANGED <<gstate, sst, tmp_file>>

\* flush, lines 95 to 102
FlushKeyRange(t) ==
    /\ tasks[t].pc = "key_range"
    /\ key_range' = KeyRangeSet(key_range, tasks[t].sstable_path.file_path,
                                Min(tasks[t].entries), Max(tasks[t].entries))
    /\ tasks' = [tasks EXCEPT ![t].pc = "bloom_push"]
    /\ UNCHANGED last
    /\ UNCHANGED <<read_only_memtable, bloom_filters, flush_signal>>
    /\ UNCHANGED <<bstate, gstate, sst, tmp_file>>

\* flush, lines 104 to 109
FlushBloomPush(t) ==
    /\ tasks[t].pc = "bloom_push"
    /\ bloom_filters' = Append(bloom_filters,
                               [table |-> t, sstable_path |-> tasks[t].sstable_path])
    /\ tasks' = [tasks EXCEPT ![t].pc = "bloom_sort"]
    /\ UNCHANGED last
    /\ UNCHANGED <<read_only_memtable, key_range, flush_signal>>
    /\ UNCHANGED <<bstate, gstate, sst, tmp_file>>

\* flush, lines 112 to 118: the sort under a second write guard, then Ok(())
FlushBloomSort(t) ==
    /\ tasks[t].pc = "bloom_sort"
    /\ bloom_filters' = SortByHotness(bloom_filters)
    /\ tasks' = [tasks EXCEPT ![t].pc = "remove", ![t].result = "ok"]
    /\ UNCHANGED last
    /\ UNCHANGED <<read_only_memtable, key_range, flush_signal>>
    /\ UNCHANGED <<bstate, gstate, sst, tmp_file>>

\* flush_handler, line 150
RemoveFromRegistry(t) ==
    /\ tasks[t].pc = "remove"
    /\ read_only_memtable' = ShiftRemove(read_only_memtable, t)
    /\ tasks' = [tasks EXCEPT ![t].pc = "signal"]
    /\ UNCHANGED last
    /\ UNCHANGED <<key_range, bloom_filters, flush_signal>>
    /\ UNCHANGED <<bstate, gstate, sst, tmp_file>>

\* mutant: a full channel makes the handler treat the flush as failed
BroadcastOrRollback(t) ==
    /\ tasks[t].pc = "signal"
    /\ IF flush_signal < ChannelCap
       THEN /\ flush_signal' = flush_signal + 1
            /\ tasks' = [tasks EXCEPT ![t].pc = "done"]
            /\ read_only_memtable' = read_only_memtable
       ELSE /\ flush_signal' = flush_signal
            /\ tasks' = [tasks EXCEPT ![t].pc = "failed", ![t].result = "err"]
            /\ read_only_memtable' = Append(read_only_memtable, t)
    /\ UNCHANGED last
    /\ UNCHANGED <<key_range, bloom_filters>>
    /\ UNCHANGED <<bstate, gstate, sst, tmp_file>>

\* flush_handler, lines 153 to 164: try_broadcast in a task of its own
Broadcast(t) ==
    /\ tasks[t].pc = "signal"
    /\ IF flush_signal < ChannelCap
       THEN /\ flush_signal' = flush_signal + 1
            /\ tasks' = [tasks EXCEPT ![t].pc = "done"]
       ELSE /\ flush_signal' = flush_signal
            /\ tasks' = [tasks EXCEPT ![t].pc = "done", ![t].result = "overflow"]
    /\ UNCHANGED last
    /\ UNCHANGED <<read_only_memtable, key_range, bloom_filters>>
    /\ UNCHANGED <<bstate, gstate, sst, tmp_file>>

\* a subscriber of the channel takes a signal
Receive ==
    /\ flush_signal > 0
    /\ flush_signal' = flush_signal - 1
    /\ UNCHANGED last
    /\ UNCHANGED <<tasks, read_only_memtable, key_range, bloom_filters, guards>>
    /\ UNCHANGED <<bstate, gstate, sst, tmp_file>>

SealTable ==
    /\ \E t \in 1..MaxFlush, entries \in EntrySets : Seal(t, entries)
    /\ UNCHANGED guards

\* no flush task is between its first and its last step
NoFlushRunning == \A t \in TableIds : tasks[t].pc \in {"done", "failed", "panicked"}

\* the engine seals the next memtable only once the flushes before it are over
SealNext ==
    /\ NoFlushRunning
    /\ \E t \in 1..(MaxFlush + 1), entries \in EntrySets : Seal(t, entries)
    /\ UNCHANGED guards

Check ==
    /\ \E t \in TableIds : FlushCheck(t)
    /\ UNCHANGED guards

InsertToBucket ==
    /\ \E t \in TableIds, wr \in {"ok", "fail"}, dt \in {0, 1} : FlushInsert(t, wr, dt)
    /\ UNCHANGED guards

SetKeyRange ==
    /\ \E t \in TableIds : FlushKeyRange(t)
    /\ UNCHANGED guards

PushBloomFilter ==
    /\ \E t \in TableIds : FlushBloomPush(t)
    /\ UNCHANGED guards

SortBloomFilters ==
    /\ \E t \in TableIds : FlushBloomSort(t)
    /\ UNCHANGED guards

Remove ==
    /\ \E t \in TableIds : RemoveFromRegistry(t)
    /\ UNCHANGED guards

Signal ==
    /\ \E t \in TableIds : Broadcast(t)
    /\ UNCHANGED guards

(***************************************************************************)
(* flush_handler tasks beside readers: the guards of the tokio RwLocks.    *)
(* A write guard needs the lock free of readers and writers; the lock is   *)
(* fair, so a reader that arrives while a writer waits queues behind it.   *)
(***************************************************************************)

\* the memtables sealed in the runs with readers: an empty one, a non-empty one
LockEntrySets == {{}, {1}}

\* the steps of flush and flush_handler that take the write guard of lock l
WriterPcs(l) ==
    CASE l = "bucket_map" -> {"insert"}
      [] l = "key_range" -> {"key_range"}
      [] l = "bloom_filters" -> {"bloom_push", "bloom_sort"}
      [] l = "read_only_memtable" -> {"remove"}
      [] OTHER -> {}

\* a flush task is waiting for, or holds, the write guard of lock l
WritePending(l) == \E t \in TableIds : tasks[t].pc \in WriterPcs(l)

\* RwLock::write can be granted
Free(l) == guards.writer[l] = 0 /\ \A r \in Readers : guards.reader[r] # l

\* RwLock::read can be granted
ReadFree(l) == guards.writer[l] = 0 /\ ~WritePending(l)

SealLocked ==
    /\ \E t \in 1..MaxLockTasks, entries \in LockEntrySets : Seal(t, entries)
    /\ UNCHANGED guards

\* flush, line 77: table.read()
CheckLocked(t) ==
    /\ guards.writer["memtable"] = 0
    /\ FlushCheck(t)
    /\ UNCHANGED guards

\* flush, lines 88 to 91: bucket_map.write().await is granted
AcquireBucketMap(t) ==
    /\ t \in TableIds
    /\ tasks[t].pc = "insert"
    /\ Free("bucket_map")
    /\ guards' = [guards EXCEPT !.writer["bucket_map"] = t]
    /\ UNCHANGED last
    /\ UNCHANGED <<tasks, read_only_memtable, key_range, bloom_filters, flush_signal>>
    /\ UNCHANGED <<bstate, gstate, sst, tmp_file>>

\* mutant: the guard outlives the statement when the insert returns an error
InsertLocked_leaks(t, wr) ==
    /\ guards.writer["bucket_map"] = t
    /\ guards.writer["memtable"] = 0
    /\ FlushInsert(t, wr, 1)
    /\ guards' = IF wr = "ok" THEN [guards EXCEPT !.writer["bucket_map"] = 0] ELSE guards

\* flush, lines 92 to 93: table.read(), the insert with its file write, and the
\* end of the statement, where the guard is dropped on every outcome
InsertLocked(t, wr) ==
    /\ guards.writer["bucket_map"] = t
    /\ guards.writer["memtable"] = 0
    /\ FlushInsert(t, wr, 1)
    /\ guards' = [guards EXCEPT !.writer["bucket_map"] = 0]

\* flush, lines 95 to 118, and flush_handler, line 150: one write guard each,
\* taken and dropped within the statement
KeyRangeLocked(t) == Free("key_range") /\ FlushKeyRange(t) /\ UNCHANGED guards

BloomPushLocked(t) == Free("bloom_filters") /\ FlushBloomPush(t) /\ UNCHANGED guards

BloomSortLocked(t) == Free("bloom_filters") /\ FlushBloomSort(t) /\ UNCHANGED guards

RemoveLocked(t) ==
    Free("read_only_memtable") /\ RemoveFromRegistry(t) /\ UNCHANGED guards

SignalLocked(t) == Broadcast(t) /\ UNCHANGED guards

\* a reader takes the read guard of one structure, and drops it
ReaderAcquire(r, l) ==
    /\ guards.reader[r] = "none"
    /\ ReadFree(l)
    /\ guards' = [guards EXCEPT !.reader[r] = l]
    /\ UNCHANGED last
    /\ UNCHANGED <<tasks, read_only_memtable, key_range, bloom_filters, flush_signal>>
    /\ UNCHANGED <<bstate, gstate, sst, tmp_file>>

ReaderRelease(r) ==
    /\ guards.reader[r] # "none"
    /\ guards' = [guards EXCEPT !.reader[r] = "none"]
    /\ UNCHANGED last
    /\ UNCHANGED <<tasks, read_only_memtable, key_range, bloom_filters, flush_signal>>
    /\ UNCHANGED <<bstate, gstate, sst, tmp_file>>

\* the next step of flush task t
TaskStep(t) ==
    /\ t \in TableIds
    /\ \/ CheckLocked(t)
       \/ AcquireBucketMap(t)
       \/ \E wr \in {"ok", "fail"} : InsertLocked(t, wr)
       \/ KeyRangeLocked(t)
       \/ BloomPushLocked(t)
       \/ BloomSortLocked(t)
       \/ RemoveLocked(t)
       \/ SignalLocked(t)

FlushStep == \E t \in 1..MaxLockTasks : TaskStep(t)

ReaderLock == \E r \in Readers, l \in Locks : ReaderAcquire(r, l)

ReaderUnlock == \E r \in Readers : ReaderRelease(r)

(***************************************************************************)
(* SSTable: the data file, its blocks and its sparse index                 *)
(***************************************************************************)

SIZE_OF_U32 == 4

SIZE_OF_U64 == 8

SIZE_OF_U8 == 1

\* Block: the target size of a block in bytes (4 KiB, scaled down)
BLOCK_SIZE == 40

\* the keys, value offsets and creation times an SSTable is built from
SstKeys == {<<>>, <<1>>, <<1, 2>>, <<2>>}

ValOffsets == {7, 300}

CreatedAts == {1000}

\* Ord for Vec<u8>: lexicographic
RECURSIVE KeyLess(_, _)
KeyLess(a, b) ==
    IF b = <<>> THEN FALSE
    ELSE IF a = <<>> THEN TRUE
    ELSE IF Head(a) # Head(b) THEN Head(a) < Head(b)
    ELSE KeyLess(Tail(a), Tail(b))

KeyLeq(a, b) == a = b \/ KeyLess(a, b)

\* self.entries.iter(): the SkipMap yields its keys in ascending order
RECURSIVE SortedKeys(_)
SortedKeys(S) ==
    IF S = {} THEN <<>>
    ELSE LET k == CHOOSE x \in S : \A y \in S : KeyLeq(x, y)
         IN  <<k>> \o SortedKeys(S \ {k})

\* n.to_le_bytes() for an unsigned integer of w bytes
RECURSIVE to_le_bytes(_, _)
to_le_bytes(n, w) ==
    IF w = 0 THEN <<>> ELSE <<n % 256>> \o to_le_bytes(n \div 256, w - 1)

\* from_le_bytes of a buffer (missing trailing bytes are the zeros the buffer held)
RECURSIVE from_le_bytes(_)
from_le_bytes(bytes) ==
    IF bytes = <<>> THEN 0 ELSE Head(bytes) + 256 * from_le_bytes(Tail(bytes))

\* Block::set_entry: key_len:u32 | key | value_offset:u32 | created_at:u64 | is_tombstone:u8
set_entry(key, e) ==
    to_le_bytes(Len(key), SIZE_OF_U32) \o key
        \o to_le_bytes(e.val_offset, SIZE_OF_U32)
        \o to_le_bytes(e.created_at, SIZE_OF_U64)
        \o <<IF e.is_tombstone THEN 1 ELSE 0>>

NewBlock == [data |-> <<>>, first_key |-> <<>>]

\* Block::is_full: appending entry_size bytes would exceed the target size
is_full(block, entry_size) == Len(block.data) + entry_size > BLOCK_SIZE

\* the first loop of write_to_file: the blocks cut from the sorted entries
RECURSIVE BuildBlocks(_, _, _, _)
BuildBlocks(entries, keys, blocks, current_block) ==
    IF keys = <<>>
    THEN IF Len(current_block.data) > 0 THEN Append(blocks, current_block)
         ELSE blocks
    ELSE LET key == Head(keys)
             entry_size == Len(key) + SIZE_OF_U32 + SIZE_OF_U32 + SIZE_OF_U64
                               + SIZE_OF_U8
             full == is_full(current_block, entry_size)
             blk == IF full THEN NewBlock ELSE current_block
         IN  BuildBlocks(entries, Tail(keys),
                         IF full THEN Append(blocks, current_block) ELSE blocks,
                         [data |-> blk.data \o set_entry(key, entries[key]),
                          first_key |-> IF blk.data = <<>> THEN key
                                        ELSE blk.first_key])

\* write_block: the offset is the file's length before the block is written
write_block(s, block) ==
    [file |-> s.file \o block.data,
     index |-> Append(s.index, [key |-> block.first_key, offset |-> Len(s.file)])]

RECURSIVE WriteBlocks(_, _)
WriteBlocks(s, blocks) ==
    IF blocks = <<>> THEN s
    ELSE WriteBlocks(write_block(s, Head(blocks)), Tail(blocks))

\* SSTable::write_to_file on a freshly created data file
write_to_file(entries) ==
    WriteBlocks([file |-> <<>>, index |-> <<>>],
                BuildBlocks(entries, SortedKeys(DOMAIN entries), <<>>, NewBlock))

\* file.read(buf) at position pos with a buffer of n bytes: the bytes delivered
Read(file, pos, n) ==
    IF pos + n <= Len(file) THEN SubSeq(file, pos + 1, pos + n)
    ELSE IF pos < Len(file) THEN SubSeq(file, pos + 1, Len(file))
    ELSE <<>>

\* a buffer of n zero bytes after a read delivered bytes into it
Buffer(bytes, n) == [i \in 1..n |-> IF i <= Len(bytes) THEN bytes[i] ELSE 0]

\* one turn of the read loop of get and range: the five reads of one record
ReadEntry(file, pos) ==
    LET key_len_bytes == Read(file, pos, SIZE_OF_U32)
        key_len == from_le_bytes(key_len_bytes)
        p1 == pos + Len(key_len_bytes)
        key == Read(file, p1, key_len)
        p2 == p1 + Len(key)
        val_offset_bytes == Read(file, p2, SIZE_OF_U32)
        p3 == p2 + Len(val_offset_bytes)
        created_at_bytes == Read(file, p3, SIZE_OF_U64)
        p4 == p3 + Len(created_at_bytes)
        is_tombstone_byte == Read(file, p4, SIZE_OF_U8)
    IN  IF Len(key_len_bytes) = 0 THEN [status |-> "eof"]
        ELSE IF \/ Len(key) = 0
                \/ Len(val_offset_bytes) = 0
                \/ Len(created_at_bytes) = 0
                \/ Len(is_tombstone_byte) = 0
        THEN [status |-> "UnexpectedEOF"]
        ELSE [status |-> "ok",
              key |-> Buffer(key, key_len),
              val_offset |-> from_le_bytes(val_offset_bytes),
              created_at |-> from_le_bytes(created_at_bytes),
              is_tombstone |-> is_tombstone_byte[1] = 1,
              next |-> p4 + Len(is_tombstone_byte)]

\* SSTable::get: scan from start_offset until the key is met or the file ends
RECURSIVE sst_get(_, _, _)
sst_get(file, start_offset, searched_key) ==
    LET e == ReadEntry(file, start_offset)
    IN  IF e.status = "eof" THEN [status |-> "ok", value |-> None]
        ELSE IF e.status = "UnexpectedEOF" THEN [status |-> "UnexpectedEOF"]
        ELSE IF e.key = searched_key
        THEN [status |-> "ok",
              value |-> [val_offset |-> e.val_offset, created_at |-> e.created_at,
                         is_tombstone |-> e.is_tombstone]]
        ELSE sst_get(file, e.next, searched_key)

\* SSTable::range: collect entries until total_bytes_read >= end_offset
RECURSIVE RangeLoop(_, _, _, _)
RangeLoop(file, total_bytes_read, end_offset, entries) ==
    LET e == ReadEntry(file, total_bytes_read)
    IN  IF e.status = "eof" THEN [status |-> "ok", entries |-> entries]
        ELSE IF e.status = "UnexpectedEOF" THEN [status |-> "UnexpectedEOF"]
        ELSE LET pushed == Append(entries,
                               [key |-> e.key, val_offset |-> e.val_offset,
                                created_at |-> e.created_at,
                                is_tombstone |-> e.is_tombstone])
             IN  IF e.next >= end_offset THEN [status |-> "ok", entries |-> pushed]
                 ELSE RangeLoop(file, e.next, end_offset, pushed)

sst_range(file, range_offset) ==
    RangeLoop(file, range_offset.start_offset, range_offset.end_offset, <<>>)

\* SparseIndex lookup: the offset of the block a key belongs to, that is of the
\* last block whose first key is not above it (the first block when none is)
RECURSIVE BlockOffset(_, _)
BlockOffset(sparse_index, key) ==
    IF Len(sparse_index) = 1 THEN sparse_index[1].offset
    ELSE IF KeyLeq(sparse_index[Len(sparse_index)].key, key)
    THEN sparse_index[Len(sparse_index)].offset
    ELSE BlockOffset(SubSeq(sparse_index, 1, Len(sparse_index) - 1), key)

\* SparseIndex: the start and end offsets of a range of keys
RangeOffset(sparse_index, lo, hi) ==
    [start_offset |-> BlockOffset(sparse_index, lo),
     end_offset |-> BlockOffset(sparse_index, hi)]

\* the caller's filter on the exact key bounds
RECURSIVE FilterBounds(_, _, _)
FilterBounds(entries, lo, hi) ==
    IF entries = <<>> THEN <<>>
    ELSE IF KeyLeq(lo, Head(entries).key) /\ KeyLeq(Head(entries).key, hi)
    THEN <<Head(entries)>> \o FilterBounds(Tail(entries), lo, hi)
    ELSE FilterBounds(Tail(entries), lo, hi)

SstInit == sst = None

\* the entry sets a table is built from: sorted, keys unique, not empty
SstEntry == [val_offset : ValOffsets, created_at : CreatedAts, is_tombstone : BOOLEAN]

\* a memtable is flushed into a new SSTable
BuildTable(keys, entries) ==
    /\ sst = None
    /\ LET w == write_to_file(entries)
       IN  sst' = [entries |-> entries, file |-> w.file, index |-> w.index]
    /\ last' = [kind |-> "write_to_file", keys |-> keys]
    /\ UNCHANGED <<bstate, gstate, fstate, tmp_file>>

\* the point read of the engine: sparse index lookup, then SSTable::get
PointRead(k) ==
    /\ sst # None
    /\ LET start_offset == BlockOffset(sst.index, k)
       IN  last' = [kind |-> "get", key |-> k, start_offset |-> start_offset,
                    result |-> sst_get(sst.file, start_offset, k)]
    /\ UNCHANGED <<bstate, gstate, fstate, sst, tmp_file>>

\* the range read of the engine: offsets from the sparse index, SSTable::range,
\* then the filter on the exact bounds
RangeRead(lo, hi) ==
    /\ sst # None
    /\ KeyLeq(lo, hi)
    /\ LET range_offset == RangeOffset(sst.index, lo, hi)
           r == sst_range(sst.file, range_offset)
       IN  last' = [kind |-> "range", lo |-> lo, hi |-> hi,
                    range_offset |-> range_offset,
                    status |-> r.status,
                    entries |-> IF r.status = "ok"
                                THEN FilterBounds(r.entries, lo, hi) ELSE <<>>]
    /\ UNCHANGED <<bstate, gstate, fstate, sst, tmp_file>>

Build ==
    \E keys \in (SUBSET SstKeys) \ {{}} :
        \E entries \in [keys -> SstEntry] : BuildTable(keys, entries)

Get == \E k \in SstKeys : PointRead(k)

RangeScan == \E lo \in SstKeys, hi \in SstKeys : RangeRead(lo, hi)

\* the data file loses its tail (a crash during the write, a damaged file):
\* it now ends after its first n bytes
CutFile(n) ==
    /\ sst # None
    /\ last.kind = "write_to_file"
    /\ n < Len(sst.file)
    /\ sst' = [sst EXCEPT !.file = SubSeq(sst.file, 1, n)]
    /\ last' = [kind |-> "cut", len |-> n]
    /\ UNCHANGED <<bstate, gstate, fstate, tmp_file>>

\* the longest data file of the model: every key, one record each
MaxFileLen == Len(write_to_file([k \in SstKeys |-> CHOOSE e \in SstEntry : TRUE]).file)

Cut == \E n \in 0..MaxFileLen : CutFile(n)

(***************************************************************************)
(* GC::punch_holes on the bytes of a file                                  *)
(***************************************************************************)

MaxFileBytes == 4       \* length of the file punch_holes is called on

\* the bytes a file may hold before it is punched (none of them zero)
SampleBytes == {1, 2}

\* mutant: the range is deallocated without keeping the file's size
punch_holes_truncating(file, start, len) ==
    IF start >= Len(file) THEN file
    ELSE IF start + len >= Len(file) THEN SubSeq(file, 1, start)
    ELSE [i \in 1..Len(file) |->
             IF start < i /\ i <= start + len THEN 0 ELSE file[i]]

\* GC::punch_holes(file, start, len) where hole punching exists: fallocate with
\* punch-hole and keep-size; the range reads back as zeros
punch_holes_bytes(file, start, len) ==
    [i \in 1..Len(file) |-> IF start < i /\ i <= start + len THEN 0 ELSE file[i]]

PunchInit == tmp_file = <<>>

\* the file is written once
WriteSample ==
    /\ tmp_file = <<>>
    /\ \E n \in 1..MaxFileBytes : \E bytes \in [1..n -> SampleBytes] : tmp_file' = bytes
    /\ last' = [op |-> "write_sample"]
    /\ UNCHANGED <<bstate, gstate, fstate, sst>>

PunchHolesAt(start, len) ==
    /\ tmp_file # <<>>
    /\ tmp_file' = punch_holes_bytes(tmp_file, start, len)
    /\ last' = [op |-> "punch_holes", status |-> "ok", start |-> start, len |-> len,
                before |-> tmp_file]
    /\ UNCHANGED <<bstate, gstate, fstate, sst>>

PunchHoles == \E start \in 0..MaxFileBytes, len \in 0..MaxFileBytes : PunchHolesAt(start, len)

(***************************************************************************)
(* Specifications of the BucketMap                                         *)
(***************************************************************************)

TotalTables == LET RECURSIVE Count(_)
                   Count(bs) == IF bs = {} THEN 0
                                ELSE LET b == CHOOSE c \in bs : TRUE
                                     IN  Len(buckets[b].sstables) + Count(bs \ {b})
               IN  Count(DOMAIN buckets)

\* a table offered by the flusher: memtable.size() and the bytes write_to_file emits
Table(size) == [size |-> size, bytes |-> size]

BucketInit ==
    /\ buckets = <<>>
    /\ disk = <<>>
    /\ ndirs = 0
    /\ now = 0
    /\ extracted = None
    /\ last = None

Init == BucketInit /\ VlogInit /\ FlushInit /\ SstInit /\ PunchInit

\* every data-file path some bucket lists
ListedPaths ==
    UNION {{buckets[b].sstables[i].file_path : i \in 1..Len(buckets[b].sstables)} :
              b \in DOMAIN buckets}

\* data files no bucket lists
Orphans == DOMAIN disk \ ListedPaths

\* flushes of tables of mixed sizes, two of them possibly within one millisecond
Insert ==
    /\ TotalTables < MaxTables
    /\ \E size \in Sizes, wr \in {"ok", "fail"}, dt \in {0, 1} :
          /\ now + dt <= MaxNow
          /\ wr = "fail" => Cardinality(Orphans) < MaxFailed
          /\ insert_to_appropriate_bucket(Table(size), 1, wr, dt)
    /\ UNCHANGED <<gstate, fstate, sst, tmp_file>>

Extract ==
    /\ extract_buckets_to_compact
    /\ UNCHANGED <<gstate, fstate, sst, tmp_file>>

Delete ==
    /\ extracted.op = "extract"
    /\ delete_sstables(extracted.delete)
    /\ UNCHANGED <<gstate, fstate, sst, tmp_file>>

Next == Insert

Spec == Init /\ [][Next]_vars

\* flushes of equal-sized tables, one per millisecond, until a bucket overflows
InsertSame ==
    /\ now < MAX_TRESHOLD + ExtraTables
    /\ insert_to_appropriate_bucket(Table(CompactSize), 1, "ok", 1)
    /\ UNCHANGED <<gstate, fstate, sst, tmp_file>>

NextCompact == InsertSame \/ Extract \/ Delete

SpecCompact == Init /\ [][NextCompact]_vars

(***************************************************************************)
(* The engine's reads and writes and the garbage collector (spec sections  *)
(* 4.4 and 4.5)                                                            *)
(***************************************************************************)

\* keys and values of the workload, as byte strings
Keys == {<<1>>, <<2>>}
Values == {<<7>>, <<8>>}
\* the payload a delete appends with its tombstone
TombstoneValue == <<>>
\* gc_chunk_size values the cycles run with
Budgets == {1, 37}

MaxWrites == 3          \* client writes (put, delete) per run

\* the largest serialized entry of the workload: 16 + key_len + value_len + 1
MaxEntrySize == HeaderLen + 1 + 1

\* get(key): the newest version of the key, dereferenced in the value log
EngineGet(idx, f, key) ==
    IF key \notin DOMAIN idx THEN [kind |-> "absent"]
    ELSE IF idx[key].is_tombstone THEN [kind |-> "absent"]
    ELSE get(f, idx[key].value_offset)

\* liveness of entry i of the file: not a tombstone, and the index points at it
IsLive(idx, f, i) ==
    /\ ~f[i].is_tombstone
    /\ f[i].key \in DOMAIN idx
    /\ ~idx[f[i].key].is_tombstone
    /\ idx[f[i].key].value_offset = PhysOff(f, i)

\* step 3: re-append the live entries i..lst of the scanned chunk, in file order
RECURSIVE Migrate(_, _, _, _, _)
Migrate(idx, f0, i, lst, st) ==
    IF i > lst THEN st
    ELSE IF IsLive(idx, f0, i)
         THEN LET r == append(st.log, st.file, f0[i].key, f0[i].value, FALSE, "ok")
              IN  Migrate(idx, f0, i + 1, lst,
                          [log |-> r.log, file |-> r.file,
                           updated |-> (f0[i].key :> r.offset) @@ st.updated])
         ELSE Migrate(idx, f0, i + 1, lst, st)

\* steps 5 and 6: the scanned entries read back as zeros, the file keeps its length
punch_holes(f, first, lst) ==
    [i \in 1..Len(f) |-> IF i \in first..lst THEN [f[i] EXCEPT !.punched = TRUE] ELSE f[i]]

\* what a call records about the state it started from
GcBefore ==
    IF last.op = "gc" THEN last.before
    ELSE [tail_offset |-> vlog.tail_offset, head_offset |-> vlog.head_offset,
          reads |-> [k \in Keys |-> EngineGet(index, vfile, k)],
          live |-> {k \in Keys : \E i \in 1..Len(vfile) : vfile[i].key = k /\ IsLive(index, vfile, i)}]

\* the engine's ValueLog after a cycle: the re-appends grew it, its cursor is not touched
EngineLogAfterCycle(log, new_tail) == log

\* one GC cycle on the GC's handle, steps 1 to 6
gc_handler(bytes_to_collect) ==
    LET chunk == read_chunk_to_garbage_collect(vfile, gc_log.tail_offset, bytes_to_collect)
        st == Migrate(index, vfile, chunk.first, chunk.last,
                      [log |-> vlog, file |-> vfile, updated |-> gc_updated_entries])
        new_tail == gc_log.tail_offset + chunk.total_bytes_read
    IN  /\ IF chunk.total_bytes_read = 0
           THEN UNCHANGED gstate
           ELSE /\ vfile' = punch_holes(st.file, chunk.first, chunk.last)
                /\ vlog' = EngineLogAfterCycle(st.log, new_tail)
                /\ gc_updated_entries' = st.updated
                /\ gc_log' = [tail_offset |-> new_tail, head_offset |-> st.log.size]
                /\ punch_marker' = new_tail
                /\ UNCHANGED <<index, gc_task, writes>>
        /\ last' = [op |-> "gc", bytes_to_collect |-> bytes_to_collect,
                    total_bytes_read |-> chunk.total_bytes_read,
                    single |-> last.op # "gc",
                    unscanned |-> FileSize(vfile) - gc_log.tail_offset,
                    before |-> GcBefore]

\* step 3 when the file write of one re-append fails: fail is the number, in
\* the file, of the entry whose re-append is hit (0: none)
RECURSIVE MigrateFaulty(_, _, _, _, _, _)
MigrateFaulty(idx, f0, i, lst, st, fail) ==
    IF i > lst THEN st
    ELSE IF IsLive(idx, f0, i)
         THEN LET r == append(st.log, st.file, f0[i].key, f0[i].value, FALSE,
                              IF i = fail THEN "fail" ELSE "ok")
              IN  MigrateFaulty(idx, f0, i + 1, lst,
                                [log |-> r.log, file |-> r.file,
                                 updated |-> (f0[i].key :> r.offset) @@ st.updated],
                                fail)
         ELSE MigrateFaulty(idx, f0, i + 1, lst, st, fail)

\* punch_holes where the platform has no hole punching: Ok, nothing done
punch_holes_unsupported(f, first, lst) == f

\* one GC cycle, steps 1 to 6, on a platform with or without hole punching and
\* with at most one failing file write among its re-appends; every append
\* returns Ok, so the cycle commits
gc_cycle(bytes_to_collect, platform, fail) ==
    LET chunk == read_chunk_to_garbage_collect(vfile, gc_log.tail_offset, bytes_to_collect)
        st == MigrateFaulty(index, vfile, chunk.first, chunk.last,
                            [log |-> vlog, file |-> vfile, updated |-> gc_updated_entries],
                            fail)
        new_tail == gc_log.tail_offset + chunk.total_bytes_read
        hit == /\ fail \in chunk.first..chunk.last
               /\ IsLive(index, vfile, fail)
    IN  /\ fail # 0 => hit
        /\ IF chunk.total_bytes_read = 0
           THEN UNCHANGED gstate
           ELSE /\ vfile' = IF platform = "linux"
                            THEN punch_holes(st.file, chunk.first, chunk.last)
                            ELSE punch_holes_unsupported(st.file, chunk.first, chunk.last)
                /\ vlog' = EngineLogAfterCycle(st.log, new_tail)
                /\ gc_updated_entries' = st.updated
                /\ gc_log' = set_head(set_tail(gc_log, new_tail), st.log.size)
                /\ punch_marker' = new_tail
                /\ UNCHANGED <<index, gc_task, writes>>
        /\ last' = [op |-> "gc", bytes_to_collect |-> bytes_to_collect,
                    total_bytes_read |-> chunk.total_bytes_read,
                    single |-> last.op # "gc",
                    unscanned |-> FileSize(vfile) - gc_log.tail_offset,
                    before |-> GcBefore,
                    platform |-> platform, status |-> "ok", failed_write |-> hit,
                    cursor |-> gc_log, punch_marker |-> punch_marker,
                    punched |-> {i \in 1..Len(vfile) : vfile[i].punched}]

\* steps 1 and 2 of a cycle that runs beside the client: the chunk is read and the
\* liveness of each of its entries is looked up
gc_scan(bytes_to_collect) ==
    LET chunk == read_chunk_to_garbage_collect(vfile, gc_log.tail_offset, bytes_to_collect)
    IN  /\ gc_task = None
        /\ chunk.total_bytes_read > 0
        /\ gc_task' = [op |-> "scan", chunk |-> chunk,
                       live |-> {i \in chunk.first..chunk.last : IsLive(index, vfile, i)}]
        /\ last' = [op |-> "gc_scan", bytes_to_collect |-> bytes_to_collect]
        /\ UNCHANGED <<vfile, vlog, gc_log, index, gc_updated_entries, punch_marker, writes>>

\* step 3 of that cycle: re-append the entries the lookup of step 2 found live
RECURSIVE MigrateChecked(_, _, _, _, _)
MigrateChecked(f0, i, lst, live, st) ==
    IF i > lst THEN st
    ELSE IF i \in live
         THEN LET r == append(st.log, st.file, f0[i].key, f0[i].value, FALSE, "ok")
              IN  MigrateChecked(f0, i + 1, lst, live,
                                 [log |-> r.log, file |-> r.file,
                                  updated |-> (f0[i].key :> r.offset) @@ st.updated])
         ELSE MigrateChecked(f0, i + 1, lst, live, st)

\* steps 3 to 6 of that cycle; the client may have written since step 2
gc_commit ==
    LET chunk == gc_task.chunk
        st == MigrateChecked(vfile, chunk.first, chunk.last, gc_task.live,
                             [log |-> vlog, file |-> vfile, updated |-> gc_updated_entries])
        new_tail == gc_log.tail_offset + chunk.total_bytes_read
    IN  /\ gc_task # None
        /\ vfile' = punch_holes(st.file, chunk.first, chunk.last)
        /\ vlog' = EngineLogAfterCycle(st.log, new_tail)
        /\ gc_updated_entries' = st.updated
        /\ gc_log' = set_head(set_tail(gc_log, new_tail), st.log.size)
        /\ punch_marker' = new_tail
        /\ gc_task' = None
        /\ UNCHANGED <<index, writes>>
        /\ last' = [op |-> "gc", concurrent |-> TRUE,
                    reads |-> [k \in Keys |-> EngineGet(index, vfile, k)],
                    overtaken |-> {vfile[i].key : i \in {j \in gc_task.live :
                                                           ~IsLive(index, vfile, j)}}]

\* the merge every write starts with: the published offsets enter the memtable and
\* the GC's cursor becomes the engine's
MergedIndex ==
    [k \in DOMAIN gc_updated_entries |->
        [value_offset |-> gc_updated_entries[k], is_tombstone |-> FALSE]] @@ index

SyncedLog == set_head(set_tail(vlog, gc_log.tail_offset), gc_log.head_offset)

\* put(key, value) and delete(key): merge, then append and index the new version
Write(key, value, is_tombstone, wr) ==
    LET r == append(SyncedLog, vfile, key, value, is_tombstone, wr)
    IN  /\ vfile' = r.file
        /\ vlog' = r.log
        /\ index' = (key :> [value_offset |-> r.offset, is_tombstone |-> is_tombstone])
                        @@ MergedIndex
        /\ gc_updated_entries' = <<>>
        /\ writes' = writes + 1
        /\ UNCHANGED <<gc_log, punch_marker, gc_task>>
        /\ last' = [op |-> IF is_tombstone THEN "delete" ELSE "put", key |-> key,
                    offset |-> r.offset, wr |-> wr,
                    gc |-> IF last.op = "gc" THEN last ELSE None]

GcCycle ==
    /\ \E b \in Budgets : gc_handler(b)
    /\ UNCHANGED <<bstate, fstate, sst, tmp_file>>

Put ==
    /\ writes < MaxWrites
    /\ \E k \in Keys, v \in Values : Write(k, v, FALSE, "ok")
    /\ UNCHANGED <<bstate, fstate, sst, tmp_file>>

DeleteKey ==
    /\ writes < MaxWrites
    /\ \E k \in Keys : Write(k, TombstoneValue, TRUE, "ok")
    /\ UNCHANGED <<bstate, fstate, sst, tmp_file>>

\* a cycle in which the file write of one re-append may fail
GcCycleFaulty ==
    /\ \E b \in Budgets, fail \in 0..Len(vfile) : gc_cycle(b, "linux", fail)
    /\ UNCHANGED <<bstate, fstate, sst, tmp_file>>

\* a cycle on a platform without hole punching
GcCycleUnsupported ==
    /\ \E b \in Budgets : gc_cycle(b, "other", 0)
    /\ UNCHANGED <<bstate, fstate, sst, tmp_file>>

NextGC == Put \/ DeleteKey \/ GcCycle

SpecGC == Init /\ [][NextGC]_vars

\* the engine with GC cycles whose re-appends may hit a failing write
NextGCFaulty == Put \/ DeleteKey \/ GcCycleFaulty

SpecGCFaulty == Init /\ [][NextGCFaulty]_vars

\* the engine on a platform without hole punching
NextGCUnsupported == Put \/ DeleteKey \/ GcCycleUnsupported

SpecGCUnsupported == Init /\ [][NextGCUnsupported]_vars

\* a cycle that runs beside the client: its lookup, then its re-appends and commit
GcScan ==
    /\ \E b \in Budgets : gc_scan(b)
    /\ UNCHANGED <<bstate, fstate, sst, tmp_file>>

GcCommit ==
    /\ gc_commit
    /\ UNCHANGED <<bstate, fstate, sst, tmp_file>>

\* the engine with a GC cycle that the client's writes may interleave with
NextGCConcurrent == Put \/ DeleteKey \/ GcScan \/ GcCommit

SpecGCConcurrent == Init /\ [][NextGCConcurrent]_vars

\* a file is written and ranges of it are punched
NextPunch == WriteSample \/ PunchHoles

SpecPunch == Init /\ [][NextPunch]_vars

\* the same engine with puts whose value-log write may fail and with clear_all
PutAny ==
    /\ writes < MaxWrites
    /\ \E k \in Keys, v \in Values, wr \in {"ok", "fail"} : Write(k, v, FALSE, wr)
    /\ UNCHANGED <<bstate, fstate, sst, tmp_file>>

ClearAll ==
    /\ vfile # <<>>
    /\ vfile' = <<>>
    /\ vlog' = clear_all(vlog)
    /\ last' = [op |-> "clear_all"]
    /\ UNCHANGED <<gc_log, index, gc_updated_entries, punch_marker, gc_task, writes>>
    /\ UNCHANGED <<bstate, fstate, sst, tmp_file>>

NextVlog == PutAny \/ DeleteKey \/ GcCycle \/ ClearAll

SpecVlog == Init /\ [][NextVlog]_vars

MaxAppends == 3         \* calls of ValueLog::append per run

\* the payloads handed to ValueLog::append
Payloads == Values \cup {TombstoneValue}

\* ValueLog::append called on the log; the handles of the earlier calls are kept
AppendEntry(key, value, is_tombstone, wr) ==
    LET r == append(vlog, vfile, key, value, is_tombstone, wr)
        earlier == IF last.op = "append" THEN Append(last.earlier, last.handle)
                   ELSE <<>>
    IN  /\ Len(earlier) < MaxAppends
        /\ vfile' = r.file
        /\ vlog' = r.log
        /\ last' = [op |-> "append", wr |-> wr, before |-> vlog, earlier |-> earlier,
                    handle |-> [offset |-> r.offset, key |-> key, value |-> value,
                                is_tombstone |-> is_tombstone]]
        /\ UNCHANGED <<gc_log, index, gc_updated_entries, punch_marker, gc_task, writes>>
        /\ UNCHANGED <<bstate, fstate, sst, tmp_file>>

AppendAny ==
    \E k \in Keys, v \in Payloads, t \in BOOLEAN, wr \in {"ok", "fail"} :
        AppendEntry(k, v, t, wr)

\* a run of appends, the write of each succeeding or failing
SpecAppend == Init /\ [][AppendAny]_vars

MaxFileEntries == 1     \* entries in the file when the log is opened again

\* ValueLog::new on the directory of a log that was written before: the file is
\* kept, the three counters start at 0
Reopen ==
    /\ vlog.size > 0
    /\ Len(vfile) <= MaxFileEntries
    /\ vlog' = NewValueLog
    /\ last' = [op |-> "new", file_len |-> FileSize(vfile)]
    /\ UNCHANGED <<vfile, gc_log, index, gc_updated_entries, punch_marker, gc_task, writes>>
    /\ UNCHANGED <<bstate, fstate, sst, tmp_file>>

NextReopen == AppendAny \/ Reopen

\* runs of appends between which the log is opened again
SpecReopen == Init /\ [][NextReopen]_vars

\* flush_handler tasks interleaved with each other and with a subscriber
NextFlush ==
    \/ SealTable
    \/ Check
    \/ InsertToBucket
    \/ SetKeyRange
    \/ PushBloomFilter
    \/ SortBloomFilters
    \/ Remove
    \/ Signal
    \/ Receive

SpecFlush == Init /\ [][NextFlush]_vars

\* one flush_handler task at a time, one memtable more
NextFlushSeq ==
    \/ SealNext
    \/ Check
    \/ InsertToBucket
    \/ SetKeyRange
    \/ PushBloomFilter
    \/ SortBloomFilters
    \/ Remove
    \/ Signal
    \/ Receive

SpecFlushSeq == Init /\ [][NextFlushSeq]_vars

\* flush_handler tasks and readers of the shared structures
NextFlushLocks == SealLocked \/ FlushStep \/ ReaderLock \/ ReaderUnlock

\* the scheduler goes on running flush tasks while one of them can take a step,
\* and every reader drops its guard
SpecFlushLocks ==
    /\ Init
    /\ [][NextFlushLocks]_vars
    /\ WF_vars(FlushStep)
    /\ \A r \in Readers : WF_vars(ReaderRelease(r))

\* one SSTable is built, then read by key and by range
NextSst == Build \/ Get \/ RangeScan

SpecSst == Init /\ [][NextSst]_vars

\* one SSTable is built, possibly cut short, then read by key
NextSstCut == Build \/ Cut \/ Get

SpecSstCut == Init /\ [][NextSstCut]_vars

(***************************************************************************)
(* Claims about the BucketMap                                              *)
(***************************************************************************)

\* the bucket invariant of the data model, for one member of size s
WithinBounds(avg, s) ==
    \/ /\ avg < 2 * s
       /\ 2 * s < 3 * avg
    \/ /\ s < MIN_SSTABLE_SIZE
       /\ avg < MIN_SSTABLE_SIZE

BucketInvariant ==
    \A b \in DOMAIN buckets : \A i \in 1..Len(buckets[b].sstables) :
        WithinBounds(buckets[b].avarage_size,
                     FileLen(disk, buckets[b].sstables[i].file_path))

\* every insert so far succeeded: no failed write left a file, the last call returned Ok
OnlySuccessfulInserts ==
    /\ Orphans = {}
    /\ last.op = "insert"
    /\ last.status = "ok"

\* every insert wrote a data file of its own (no two within one millisecond)
OneFilePerTable == Cardinality(ListedPaths) = TotalTables

\* C1: after any sequence of successful insert_to_appropriate_bucket calls, every
\* SSTable of every bucket lies strictly between half and one and a half times the
\* bucket's average size, or it and the average are both below MIN_SSTABLE_SIZE.
\* Stated for the runs in which every table got a data file of its own.
C1_BucketInvariantAfterInserts ==
    (OnlySuccessfulInserts /\ OneFilePerTable) => BucketInvariant

\* C2: after extract_buckets_to_compact and delete_sstables on the returned delete
\* list, every bucket the list names holds exactly its pre-compaction tail
\* sstables[MAX_TRESHOLD..], and exactly the compacted data files left the disk.
C2_DeleteRemovesCompacted ==
    (last.op = "delete" /\ last.status = "ok") =>
        \A b \in DOMAIN last.delete :
            /\ buckets[b].sstables =
                   SubSeq(last.before[b].sstables, MAX_TRESHOLD + 1,
                          Len(last.before[b].sstables))
            /\ DOMAIN disk = DOMAIN last.disk_before \ Range(last.compact[b])

(***************************************************************************)
(* Claims about the garbage collector and the ValueLog                     *)
(***************************************************************************)

IsWrite == last.op \in {"put", "delete"}

\* the last call is the first write after exactly one GC cycle
WriteAfterOneCycle == IsWrite /\ last.gc.op = "gc" /\ last.gc.single

C4_NoTailAdvanceWithoutWrite ==
    last.op = "gc" => vlog.tail_offset = last.before.tail_offset

\* repeated cycles moved the GC's cursor, the engine's tail has not moved
C4_Witness ==
    /\ last.op = "gc"
    /\ ~last.single
    /\ gc_log.tail_offset > last.before.tail_offset
    /\ vlog.tail_offset = last.before.tail_offset

\* C5: one GC cycle with budget bytes_to_collect followed by a write advances
\* tail_offset by at most bytes_to_collect plus the largest entry's serialized size.
C5_TailAdvanceBounded ==
    WriteAfterOneCycle =>
        vlog.tail_offset - last.gc.before.tail_offset
            <= last.gc.bytes_to_collect + MaxEntrySize

\* the cycle overshot its budget by part of the last entry it read
C5_Witness ==
    /\ WriteAfterOneCycle
    /\ vlog.tail_offset - last.gc.before.tail_offset > last.gc.bytes_to_collect

\* C6: when the log holds an entry at or beyond the tail, one GC cycle followed by
\* one write leaves tail_offset and head_offset strictly greater than before the cycle.
C6_TailAndHeadShifted ==
    (WriteAfterOneCycle /\ last.gc.unscanned > 0) =>
        /\ vlog.tail_offset > last.gc.before.tail_offset
        /\ vlog.head_offset > last.gc.before.head_offset

\* the scanned chunk held the tombstone of a deleted key
C6_Witness ==
    /\ WriteAfterOneCycle
    /\ last.gc.unscanned > 0
    /\ last.op = "put"
    /\ vlog.tail_offset > last.gc.before.tail_offset
    /\ \E i \in 1..Len(vfile) : vfile[i].punched /\ vfile[i].is_tombstone

\* C7: in every reachable state 0 <= tail_offset <= head_offset <= size, for the
\* engine's ValueLog and for the cursor the GC cycle advances.
C7_OffsetsOrdered ==
    /\ 0 <= vlog.tail_offset
    /\ vlog.tail_offset <= vlog.head_offset
    /\ vlog.head_offset <= vlog.size
    /\ 0 <= gc_log.tail_offset
    /\ gc_log.tail_offset <= gc_log.head_offset
    /\ gc_log.head_offset <= vlog.size

\* appends, a GC cycle and a merge have all acted: the three offsets differ
C7_Witness ==
    /\ 0 < vlog.tail_offset
    /\ vlog.tail_offset < vlog.head_offset
    /\ vlog.head_offset < vlog.size

(***************************************************************************)
(* Claims about the Flusher                                                *)
(***************************************************************************)

\* data-file paths the bloom-filter list is bound to
BloomPaths == {bloom_filters[i].sstable_path.file_path : i \in 1..Len(bloom_filters)}

InRegistry(t) == t \in Range(read_only_memtable)

Sealed(t) == t \in DOMAIN tasks

\* the SSTable of path p is known to all three shared structures
Registered(p) == p \in ListedPaths /\ p \in DOMAIN key_range /\ p \in BloomPaths

\* a lookup of key k reaches the SSTable task t wrote: its path is listed in a
\* bucket, the key range stored for the path covers k, and t's filter is bound to it
FindableInSSTable(t, k) ==
    LET p == tasks[t].sstable_path.file_path
    IN  /\ tasks[t].sstable_path # None
        /\ p \in ListedPaths
        /\ p \in DOMAIN key_range
        /\ key_range[p].smallest_key <= k
        /\ k <= key_range[p].biggest_key
        /\ \E i \in 1..Len(bloom_filters) :
              bloom_filters[i].table = t /\ bloom_filters[i].sstable_path.file_path = p

\* C8: in no state a reader can observe is an SSTable registered in some but not
\* all of BucketMap, KeyRange and the bloom-filter list.
C8_AtomicVisibility ==
    \A p \in ListedPaths \cup DOMAIN key_range \cup BloomPaths : Registered(p)

\* C9: a task whose flush succeeded removes its id from the registry before it
\* signals, does neither before its SSTable is registered in all three
\* structures, and every key of a sealed memtable is findable in the registry or
\* in the registered SSTable at every moment.
C9_RemovalAfterRegistration ==
    \A t \in TableIds :
        /\ tasks[t].pc \in {"signal", "done"} => ~InRegistry(t)
        /\ (Sealed(t) /\ ~InRegistry(t)) => Registered(tasks[t].sstable_path.file_path)
        /\ Sealed(t) =>
              \A k \in tasks[t].entries : InRegistry(t) \/ FindableInSSTable(t, k)

\* C10: the flush of a memtable with no entries ends in an error and its step
\* changes nothing in BucketMap, KeyRange, the bloom-filter list or on disk.
C10_EmptyTableRejected ==
    [][\A t \in TableIds :
          (tasks[t].pc = "check" /\ tasks[t].entries = {} /\ tasks'[t].pc # "check")
              => /\ tasks'[t].pc = "failed"
                 /\ tasks'[t].result = "err"
                 /\ UNCHANGED <<buckets, disk, ndirs, key_range, bloom_filters>>]_vars

\* an empty table was rejected while another table's SSTable is registered
C10_Witness ==
    \E t \in TableIds :
        /\ tasks[t].entries = {}
        /\ tasks[t].pc = "failed"
        /\ tasks[t].result = "err"
        /\ InRegistry(t)
        /\ \E u \in TableIds : tasks[u].result = "ok"

\* flush has returned Ok for task t
FlushReturnedOk(t) == tasks[t].pc \in {"remove", "signal", "done"}

\* number of bucket members that name the data file p
CountListed(p) ==
    LET RECURSIVE Cnt(_)
        Cnt(bs) == IF bs = {} THEN 0
                   ELSE LET b == CHOOSE c \in bs : TRUE
                        IN  Cardinality({i \in 1..Len(buckets[b].sstables) :
                                            buckets[b].sstables[i].file_path = p})
                            + Cnt(bs \ {b})
    IN  Cnt(DOMAIN buckets)

\* C11: once flush has returned Ok for a non-empty table, exactly one bucket member
\* names the table's data file, KeyRange maps that path to the table's smallest
\* and biggest key, and the bloom-filter list holds the table's filter bound to it.
C11_FlushRegistersTable ==
    \A t \in TableIds :
        FlushReturnedOk(t) =>
            LET p == tasks[t].sstable_path.file_path
            IN  /\ CountListed(p) = 1
                /\ p \in DOMAIN key_range
                /\ key_range[p] = [smallest_key |-> Min(tasks[t].entries),
                                   biggest_key |-> Max(tasks[t].entries)]
                /\ \E i \in 1..Len(bloom_filters) :
                      /\ bloom_filters[i].table = t
                      /\ bloom_filters[i].sstable_path.file_path = p

\* the hotness the BucketMap holds for the members that name data file p
OwnerHotness(p) ==
    UNION {{buckets[b].sstables[i].hotness :
               i \in {j \in 1..Len(buckets[b].sstables) :
                         buckets[b].sstables[j].file_path = p}} :
           b \in DOMAIN buckets}

\* C12: in every state (with one data file per table) the bloom-filter list is in
\* descending order of the hotness of the SSTable each filter belongs to.
C12_BloomFiltersSortedByHotness ==
    OneFilePerTable =>
        \A i \in 1..Len(bloom_filters), j \in 1..Len(bloom_filters) :
            i < j =>
                \A hi \in OwnerHotness(bloom_filters[i].sstable_path.file_path),
                   hj \in OwnerHotness(bloom_filters[j].sstable_path.file_path) : hi >= hj

\* C13: a try_broadcast on a full channel reports the overflow and changes nothing
\* else; the task's flush stays successful, its SSTable stays registered and its
\* id stays out of the registry.
C13_OverflowKeepsFlush ==
    /\ [](\A t \in TableIds :
            tasks[t].result = "overflow" =>
                /\ tasks[t].pc = "done"
                /\ ~InRegistry(t)
                /\ Registered(tasks[t].sstable_path.file_path))
    /\ [][\A t \in TableIds :
            (tasks[t].pc = "signal" /\ tasks'[t].pc # "signal"
                 /\ flush_signal >= ChannelCap)
                => /\ tasks'[t].result = "overflow"
                   /\ UNCHANGED <<buckets, disk, key_range, bloom_filters,
                                  read_only_memtable, flush_signal>>]_vars

\* a task found the channel full while another task's signal was still queued
C13_Witness ==
    \E t \in TableIds :
        /\ tasks[t].result = "overflow"
        /\ flush_signal = ChannelCap
        /\ ~InRegistry(t)
        /\ Registered(tasks[t].sstable_path.file_path)

(***************************************************************************)
(* Claims about insert_to_appropriate_bucket and extract_buckets_to_compact *)
(***************************************************************************)

\* the bucket test as documented: 0.5*avg < size < 1.5*avg over the rationals, or
\* both below MIN_SSTABLE_SIZE
DocumentedMatch(avg, size) ==
    \/ /\ avg < 2 * size
       /\ 2 * size < 3 * avg
    \/ /\ size < MIN_SSTABLE_SIZE
       /\ avg < MIN_SSTABLE_SIZE

InsertedOk == last.op = "insert" /\ last.status = "ok"

\* C14: a successful insert puts the table into an existing bucket exactly when
\* some bucket passes the documented test, and then into a bucket that passes it.
C14_PlacedIffMatches ==
    InsertedOk =>
        IF last.created
        THEN \A b \in DOMAIN last.before :
                ~DocumentedMatch(last.before[b].avarage_size, last.table.size)
        ELSE DocumentedMatch(last.before[last.bucket].avarage_size, last.table.size)

\* the new bucket of a successful insert: this SSTable alone, hotness 1, the
\* file's length as the average, every other bucket as before
OneNewBucket ==
    /\ DOMAIN buckets = DOMAIN last.before \cup {last.bucket}
    /\ last.bucket \notin DOMAIN last.before
    /\ buckets[last.bucket] =
           [avarage_size |-> FileLen(disk, last.path),
            sstables |-> <<[file_path |-> last.path, hotness |-> 1]>>]
    /\ \A b \in DOMAIN last.before : buckets[b] = last.before[b]

\* C15: a successful insert creates exactly one new bucket, holding this SSTable
\* alone with hotness 1 and the file's size as average, when no existing bucket
\* matches the table, and creates no bucket when some bucket matches.
C15_NewBucketIffNoMatch ==
    InsertedOk =>
        IF \A b \in DOMAIN last.before :
              ~DocumentedMatch(last.before[b].avarage_size, last.table.size)
        THEN OneNewBucket
        ELSE DOMAIN buckets = DOMAIN last.before

Min2(a, b) == IF a <= b THEN a ELSE b

\* C16: extract_buckets_to_compact completes normally and returns, for exactly the
\* buckets with at least MIN_TRESHOLD SSTables, their first min(len, MAX_TRESHOLD)
\* SSTables in insertion order.
C16_ExtractSelectsPrefix ==
    last.op = "extract" =>
        /\ last.status = "ok"
        /\ extracted.op = "extract"
        /\ DOMAIN extracted.compact =
               {b \in DOMAIN buckets : Len(buckets[b].sstables) >= MIN_TRESHOLD}
        /\ \A b \in DOMAIN extracted.compact :
              extracted.compact[b] =
                  SubSeq(buckets[b].sstables, 1,
                         Min2(Len(buckets[b].sstables), MAX_TRESHOLD))

\* C17: the delete list of a completed extract_buckets_to_compact pairs every
\* selected bucket with exactly the SSTables of its compaction set.
C17_DeleteListIsCompactionSet ==
    (last.op = "extract" /\ last.status = "ok") =>
        /\ DOMAIN extracted.delete = DOMAIN extracted.compact
        /\ \A b \in DOMAIN extracted.compact :
              extracted.delete[b] = extracted.compact[b]

\* C18: after an insert whose SSTable write failed, the file it opened is gone
\* from disk and so is the directory of a bucket that was created for it.
C18_FailedWriteLeavesNoOrphan ==
    (last.op = "insert" /\ last.status = "err") =>
        /\ last.path \notin ListedPaths => last.path \notin DOMAIN disk
        /\ last.bucket \in 1..ndirs => last.bucket \in DOMAIN buckets

(***************************************************************************)
(* Claims about the SSTable read paths                                     *)
(***************************************************************************)

\* what the point read is expected to return for a key
Original(k) ==
    IF k \in DOMAIN sst.entries
    THEN [status |-> "ok", value |-> sst.entries[k]]
    ELSE [status |-> "ok", value |-> None]

\* C19: for an SSTable written by write_to_file from a sorted entry set, get
\* started at the sparse-index offset of the key's block returns the original
\* (value_offset, created_at, is_tombstone) of every key of the set, and None
\* for every key that is not in the set.
C19_PointReadRoundTrip ==
    (last # None /\ last.kind = "get") => last.result = Original(last.key)

\* the same statement for tables that hold no empty key
C19_NonEmptyKeys ==
    (last # None /\ last.kind = "get" /\ <<>> \notin DOMAIN sst.entries)
        => last.result = Original(last.key)

\* the entries of the table with lo <= key <= hi, in ascending key order
ExpectedRange(lo, hi) ==
    LET ks == SortedKeys({k \in DOMAIN sst.entries : KeyLeq(lo, k) /\ KeyLeq(k, hi)})
    IN  [i \in 1..Len(ks) |->
            [key |-> ks[i], val_offset |-> sst.entries[ks[i]].val_offset,
             created_at |-> sst.entries[ks[i]].created_at,
             is_tombstone |-> sst.entries[ks[i]].is_tombstone]]

\* C20: for bounds lo <= hi the range read (SSTable::range between the
\* sparse-index offsets of lo and hi, then the filter on the exact bounds)
\* returns exactly the entries with lo <= key <= hi in ascending key order,
\* none of the block that holds hi missing. Stated for tables without the
\* empty key, which no read gets past.
C20_RangeReadExact ==
    (last # None /\ last.kind = "range" /\ <<>> \notin DOMAIN sst.entries)
        => /\ last.status = "ok"
           /\ last.entries = ExpectedRange(last.lo, last.hi)

\* the data file as write_to_file left it
WrittenFile == write_to_file(sst.entries).file

\* the offsets at which the records of the written file end (0: before the first)
RECURSIVE EntryEnds(_, _)
EntryEnds(keys, pos) ==
    IF keys = <<>> THEN {pos}
    ELSE {pos} \cup EntryEnds(Tail(keys),
                              pos + Len(Head(keys)) + SIZE_OF_U32 + SIZE_OF_U32
                                  + SIZE_OF_U64 + SIZE_OF_U8)

Boundaries == EntryEnds(SortedKeys(DOMAIN sst.entries), 0)

WellFormed == sst.file = WrittenFile

EndsInsideRecord == Len(sst.file) \notin Boundaries

\* the keys of the records that lie whole in the file at or after an offset
IntactKeysFrom(start_offset) ==
    {k \in DOMAIN sst.entries :
        \E i \in 1..Len(SortedKeys(DOMAIN sst.entries)) :
            /\ SortedKeys(DOMAIN sst.entries)[i] = k
            /\ \E b \in Boundaries, c \in Boundaries :
                  /\ c = b + Len(k) + SIZE_OF_U32 + SIZE_OF_U32 + SIZE_OF_U64
                             + SIZE_OF_U8
                  /\ b >= start_offset
                  /\ c <= Len(sst.file)
                  /\ Cardinality({d \in Boundaries : d <= b}) = i}

IsGet == sst # None /\ last # None /\ last.kind = "get"

\* a file that ends inside a record makes get fail with UnexpectedEOF, unless
\* the key is met in a whole record before the end
C21_ShortReadIsError ==
    (IsGet /\ EndsInsideRecord /\ last.key \notin IntactKeysFrom(last.start_offset))
        => last.result.status = "UnexpectedEOF"

\* Ok(None) is returned only for a file that ends on a record boundary
C21_NoneOnlyOnBoundary ==
    (IsGet /\ last.result = [status |-> "ok", value |-> None]) => ~EndsInsideRecord

\* a well-formed file is never answered with UnexpectedEOF
C21_NoErrorOnWellFormed ==
    (IsGet /\ WellFormed) => last.result.status # "UnexpectedEOF"

\* C21: when the data file ends inside a record (after the first byte of its
\* key length and before its tombstone byte) get returns UnexpectedEOF; it
\* returns Ok(None) only when the file ends on a record boundary; and it never
\* returns UnexpectedEOF while scanning a well-formed file.
C21_UnexpectedEofOnlyInsideRecord ==
    /\ C21_ShortReadIsError
    /\ C21_NoneOnlyOnBoundary
    /\ C21_NoErrorOnWellFormed

\* the same three statements for tables without the empty key and reads that
\* start inside the file
C21_InsideFileNonEmptyKeys ==
    (IsGet /\ <<>> \notin DOMAIN sst.entries /\ last.start_offset <= Len(sst.file))
        => C21_UnexpectedEofOnlyInsideRecord

(***************************************************************************)
(* Claims about sealed data files                                          *)
(***************************************************************************)

\* C22: once the data file of an SSTable has been written no later operation
\* writes or appends to it: every insert_to_appropriate_bucket, even one issued
\* in the millisecond of an earlier one into the same bucket directory, leaves
\* the data file of every SSTable a bucket lists as it was.
C22_SealedFilesNeverWritten ==
    [][\A p \in ListedPaths : p \in DOMAIN disk' => disk'[p] = disk[p]]_vars

(***************************************************************************)
(* Claims about ValueLog::append                                           *)
(***************************************************************************)

\* the handles of every append of the run, oldest first
Handles == IF last.op = "append" THEN Append(last.earlier, last.handle) ELSE <<>>

\* C23: whatever appends follow, get at the offset an append of a value (not a
\* tombstone) returned yields that value and is_tombstone = false.
C23_AppendThenGet ==
    \A i \in 1..Len(Handles) :
        ~Handles[i].is_tombstone =>
            get(vfile, Handles[i].offset)
                = [kind |-> "value", value |-> Handles[i].value, is_tombstone |-> FALSE]

\* the same statement for the runs in which every write to the file succeeded
C23_WhenWritesSucceed ==
    FileSize(vfile) = vlog.size => C23_AppendThenGet

\* the bytes one append adds: 16 bytes of lengths and time, the key, the value,
\* one tombstone byte
SerializedLen(h) == 16 + Len(h.key) + Len(h.value) + 1

C29_HeadIsLastEntry ==
    last.op = "append" => vlog.head_offset = last.handle.offset

(***************************************************************************)
(* Claims about the garbage collector's scan and its hole punching         *)
(***************************************************************************)

\* the serialized sizes of entries i..j of the file, added up
RECURSIVE SumSizes(_, _, _)
SumSizes(f, i, j) == IF i > j THEN 0 ELSE EntrySize(f[i]) + SumSizes(f, i + 1, j)

\* the byte positions at which a record of the value log starts or the log ends
RecordBoundaries(f) == {PhysOff(f, i) : i \in 1..(Len(f) + 1)}

\* C25: read_chunk_to_garbage_collect never splits a record: the bytes consumed
\* it returns are the serialized sizes of the entries it returns, added up, and
\* after any number of GC cycles tail_offset lies on a record boundary.
C25_ChunkOfWholeRecords ==
    /\ \A b \in Budgets :
          LET chunk == read_chunk_to_garbage_collect(vfile, gc_log.tail_offset, b)
          IN  chunk.total_bytes_read = SumSizes(vfile, chunk.first, chunk.last)
    /\ gc_log.tail_offset \in RecordBoundaries(vfile)
    /\ vlog.tail_offset \in RecordBoundaries(vfile)

\* a second cycle read its last entry in full, past its budget, and stopped
\* before the end of the log
C25_Witness ==
    /\ last.op = "gc"
    /\ ~last.single
    /\ last.total_bytes_read > last.bytes_to_collect
    /\ gc_log.tail_offset < FileSize(vfile)

\* C26: when the re-append of a live entry fails part-way through a GC cycle,
\* tail_offset and head_offset keep the values they had before the cycle and
\* no byte range is hole-punched.
C26_FailedMigrationCommitsNothing ==
    (last.op = "gc" /\ last.failed_write) =>
        /\ gc_log = last.cursor
        /\ punch_marker = last.punch_marker
        /\ {i \in 1..Len(vfile) : vfile[i].punched} = last.punched

\* C27: on a platform without hole punching a GC cycle still completes with Ok
\* and advances the logical tail by the length of the chunk it consumed, and
\* punch_holes changes no byte of the file.
C27_UnsupportedPlatformStillAdvances ==
    /\ \A i \in 1..Len(vfile) : ~vfile[i].punched
    /\ last.op = "gc" =>
          /\ last.status = "ok"
          /\ gc_log.tail_offset = last.cursor.tail_offset + last.total_bytes_read

\* a cycle on such a platform consumed a chunk that held a stale entry
C27_Witness ==
    /\ last.op = "gc"
    /\ last.platform = "other"
    /\ last.total_bytes_read > 0
    /\ gc_log.tail_offset > last.cursor.tail_offset
    /\ \E i \in 1..Len(vfile) :
          PhysOff(vfile, i) < gc_log.tail_offset /\ ~IsLive(index, vfile, i)

\* C28: punch_holes(file, start, len) makes exactly the bytes in
\* [start, start + len) read back as zero and leaves every other byte and the
\* logical length of the file unchanged.
C28_PunchZeroesExactlyTheRange ==
    last.op = "punch_holes" =>
        /\ last.status = "ok"
        /\ Len(tmp_file) = Len(last.before)
        /\ \A i \in 1..Len(last.before) :
              tmp_file[i] = IF last.start <= i - 1 /\ i - 1 < last.start + last.len
                            THEN 0 ELSE last.before[i]

\* a range inside the file was punched: zeros in it, the bytes on both sides kept
C28_Witness ==
    /\ last.op = "punch_holes"
    /\ last.start > 0
    /\ last.len > 0
    /\ last.start + last.len < Len(tmp_file)
    /\ tmp_file[last.start + 1] = 0
    /\ tmp_file[1] # 0
    /\ tmp_file[Len(tmp_file)] # 0

(***************************************************************************)
(* Claims about the hotness of bucket members                              *)
(***************************************************************************)

\* C30: when insert_to_appropriate_bucket adds a table to a matching bucket
\* with hotness h, the new member is stored with hotness h, the hotness of the
\* SSTablePath handed back, and every member that was in the bucket before
\* has its hotness raised by exactly 1. Stated for the runs in which every
\* table got a data file of its own.
C30_NewMemberKeepsHotness ==
    (InsertedOk /\ ~last.created /\ OneFilePerTable) =>
        LET old == last.before[last.bucket].sstables
            new == buckets[last.bucket].sstables
        IN  /\ Len(new) = Len(old) + 1
            /\ new[Len(new)] = last.returned
            /\ \A i \in 1..Len(old) :
                  new[i] = [old[i] EXCEPT !.hotness = @ + 1]

\* the part about the members that were already there
C30_OldMembersRaised ==
    (InsertedOk /\ ~last.created) =>
        LET old == last.before[last.bucket].sstables
            new == buckets[last.bucket].sstables
        IN  /\ Len(new) = Len(old) + 1
            /\ new[Len(new)].file_path = last.returned.file_path
            /\ \A i \in 1..Len(old) :
                  new[i] = [old[i] EXCEPT !.hotness = @ + 1]

(***************************************************************************)
(* Claims about the BucketMap as a whole                                   *)
(***************************************************************************)

\* C31: in every state reached by insert_to_appropriate_bucket and delete_sstables
\* calls, the avarage_size of each non-empty bucket is the integer mean of the
\* on-disk lengths of the data files of its current members.
C31_AverageIsMeanOfMembers ==
    \A b \in DOMAIN buckets :
        buckets[b].sstables # <<>> =>
            /\ AllOnDisk(disk, buckets[b].sstables)
            /\ buckets[b].avarage_size = AverageSize(disk, buckets[b].sstables)

\* the part of C31 that holds: the mean is right as long as nothing was deleted
C31_MeanUntilFirstDelete ==
    (\A b \in DOMAIN buckets : \A i \in 1..Len(buckets[b].sstables) :
         buckets[b].sstables[i].file_path \in DOMAIN disk)
        => \A b \in DOMAIN buckets :
               buckets[b].sstables # <<>> =>
                   buckets[b].avarage_size = AverageSize(disk, buckets[b].sstables)

\* C32: placement is deterministic: the bucket insert_to_appropriate_bucket puts a
\* table in is fixed by the BucketMap contents and the table, so whenever a call
\* places a table, no bucket other than the one it used passed the test.
C32_PlacementDeterministic ==
    [][last'.op = "insert" =>
          \A b \in MatchingBuckets(last'.table.size) : last'.bucket = b]_vars

\* the part of C32 that holds: the table always goes to a bucket that passes the
\* test, and to a new bucket only when none does
C32_PlacedInAMatchingBucket ==
    [][last'.op = "insert" =>
          IF MatchingBuckets(last'.table.size) = {}
          THEN last'.bucket \notin DOMAIN buckets
          ELSE last'.bucket \in MatchingBuckets(last'.table.size)]_vars

(***************************************************************************)
(* Claims about a GC cycle that runs beside the client                     *)
(***************************************************************************)

\* the last call is a write that merged the entries a concurrent cycle published
MergeAfterConcurrentCycle == IsWrite /\ last.gc.op = "gc"

\* C33: a key the client wrote (put or delete) after the cycle's liveness check of
\* it and before the cycle's commit reads the same after the merge as it did when
\* the cycle committed: the re-appended older version never replaces the client's.
C33_ClientWriteSurvivesMerge ==
    MergeAfterConcurrentCycle =>
        \A k \in last.gc.overtaken \ {last.key} :
            EngineGet(index, vfile, k) = last.gc.reads[k]

\* the part of C33 that holds: the write that merges keeps its own key
C33_MergingWriteKeepsItsOwnKey ==
    (MergeAfterConcurrentCycle /\ last.wr = "ok") =>
        EngineGet(index, vfile, last.key) =
            IF last.op = "delete" THEN [kind |-> "absent"]
            ELSE get(vfile, last.offset)

\* the number of SSTable entries over all buckets of a map
RECURSIVE CountTables(_, _)
CountTables(bm, bs) ==
    IF bs = {} THEN 0
    ELSE LET b == CHOOSE c \in bs : TRUE
         IN  Len(bm[b].sstables) + CountTables(bm, bs \ {b})

\* C34: a successful insert_to_appropriate_bucket adds exactly one SSTable to the
\* map, changes exactly one bucket (an existing one or the one it creates) and
\* leaves the sstables, hotness values and avarage_size of every other bucket as
\* they were.
C34_InsertChangesOneBucket ==
    InsertedOk =>
        /\ CountTables(buckets, DOMAIN buckets)
               = CountTables(last.before, DOMAIN last.before) + 1
        /\ DOMAIN buckets = DOMAIN last.before \cup {last.bucket}
        /\ last.bucket \in DOMAIN last.before =>
               buckets[last.bucket] # last.before[last.bucket]
        /\ \A b \in DOMAIN last.before \ {last.bucket} : buckets[b] = last.before[b]

\* a table went into one of two existing buckets, the other has a member of its own
C34_Witness ==
    /\ InsertedOk
    /\ ~last.created
    /\ \E b \in DOMAIN last.before \ {last.bucket} :
          /\ last.before[b].sstables # <<>>
          /\ buckets[b] = last.before[b]
    /\ Len(buckets[last.bucket].sstables) = Len(last.before[last.bucket].sstables) + 1

\* the buckets that list data file p
OwnersOf(p) ==
    {b \in DOMAIN buckets :
        \E i \in 1..Len(buckets[b].sstables) : buckets[b].sstables[i].file_path = p}

\* C35: in every state reached by insert_to_appropriate_bucket,
\* extract_buckets_to_compact and delete_sstables calls, every SSTablePath a
\* bucket lists names a data file that is on disk, and every data file on disk is
\* listed by exactly one bucket.
C35_ListedFilesExistOwnedOnce ==
    /\ \A p \in ListedPaths : p \in DOMAIN disk
    /\ \A p \in DOMAIN disk : Cardinality(OwnersOf(p)) = 1

\* the part of C35 that holds: it is true until delete_sstables removes a file
C35_UntilFirstDelete ==
    Cardinality(DOMAIN disk) = now => C35_ListedFilesExistOwnedOnce

\* C36: after a GC cycle and before the next write merges gc_updated_entries, every
\* key whose live value lay in the chunk the cycle scanned reads the value it had
\* before the cycle, never zeros and never nothing.
C36_ReadsCorrectBeforeMerge ==
    (last.op = "gc" /\ last.single) =>
        \A k \in last.before.live :
            (\E i \in 1..Len(vfile) : vfile[i].key = k /\ vfile[i].punched)
                => EngineGet(index, vfile, k) = last.before.reads[k]

\* the part of C36 that holds: the keys whose live value the cycle did not scan
C36_UnscannedKeysReadable ==
    (last.op = "gc" /\ last.single) =>
        \A k \in last.before.live :
            (\A i \in 1..Len(vfile) : vfile[i].key = k /\ IsLive(index, vfile, i)
                                          => ~vfile[i].punched)
                => EngineGet(index, vfile, k) = last.before.reads[k]

\* the entries of file f that read as zeros
Punched(f) == {i \in 1..Len(f) : f[i].punched}

\* every punched entry ends at or before the tail the GC cycle advances
NothingPunchedBeyondTail ==
    /\ punch_marker <= gc_log.tail_offset
    /\ \A i \in Punched(vfile) : vfile[i].pos + EntrySize(vfile[i]) <= gc_log.tail_offset

\* what one step punches lies between the cycle's tail before and after the step
PunchedInsideTheChunk ==
    \A i \in Punched(vfile') :
        (i > Len(vfile) \/ ~vfile[i].punched) =>
            /\ gc_log.tail_offset <= vfile'[i].pos
            /\ vfile'[i].pos + EntrySize(vfile'[i]) <= gc_log'.tail_offset

\* C37: every byte range a GC cycle punches lies inside [old tail_offset, new
\* tail_offset) of that cycle; in every reachable state punch_marker is at most
\* the tail_offset and no byte at or beyond the tail is punched, so no
\* re-appended live value is.
C37_PunchedRangeInsideScannedChunk ==
    [](NothingPunchedBeyondTail) /\ [][PunchedInsideTheChunk]_vars

\* two cycles have punched; beyond the tail a re-appended live value is intact
C37_Witness ==
    /\ last.op = "gc"
    /\ ~last.single
    /\ punch_marker > 0
    /\ Cardinality(Punched(vfile)) >= 2
    /\ \E j \in 1..Len(vfile) :
          /\ vfile[j].pos >= gc_log.tail_offset
          /\ j \notin Punched(vfile)
          /\ \E i \in Punched(vfile) :
                vfile[i].key = vfile[j].key /\ vfile[i].value = vfile[j].value
          /\ j \in {CHOOSE n \in EntryAt(vfile, gc_updated_entries[k]) : TRUE :
                       k \in {q \in DOMAIN gc_updated_entries :
                                 EntryAt(vfile, gc_updated_entries[q]) # {}}}

\* the record the last append was given is in the file at the offset it returned
WrittenAtReturnedOffset ==
    \E i \in EntryAt(vfile, last.handle.offset) :
        /\ vfile[i].key = last.handle.key
        /\ vfile[i].value = last.handle.value
        /\ vfile[i].is_tombstone = last.handle.is_tombstone

\* C38: in every reachable state of a ValueLog its size counter is the length of
\* the vlog file, and the offset append returns is the byte position its record
\* was written at, also after a failed write and after ValueLog::new on a file
\* that is not empty.
C38_SizeIsFileLength ==
    /\ vlog.size = FileSize(vfile)
    /\ (last.op = "append" /\ last.wr = "ok") => WrittenAtReturnedOffset

\* the part of C38 that holds: an append whose write succeeds keeps size and the
\* file length equal if they were equal before it, and its record is at the
\* returned offset
C38_HoldsWhileInStep ==
    (/\ last.op = "append"
     /\ last.wr = "ok"
     /\ last.before.size = FileSize(vfile) - SerializedLen(last.handle))
        => /\ vlog.size = FileSize(vfile)
           /\ WrittenAtReturnedOffset

\* ValueLog::new never finds the length of the file it opens
C38_NewStartsAtZero ==
    last.op = "new" => vlog.size = 0 /\ vlog.head_offset = 0 /\ vlog.tail_offset = 0

(***************************************************************************)
(* Claims about the outcome of flush_handler                               *)
(***************************************************************************)

\* the task of table t ended in the Err arm of flush_handler (or flush panicked)
FlushFailed(t) == tasks[t].pc \in {"failed", "panicked"}

\* the tasks that have sent their flush signal
Signalled == {t \in TableIds : tasks[t].pc = "done" /\ tasks[t].result = "ok"}

\* C39: a table whose flush failed keeps its id in the read-only memtable
\* registry, and no flush signal is broadcast for it: every signal in the channel
\* was sent by a task whose flush returned Ok.
C39_FailedFlushKeepsMemtable ==
    /\ \A t \in TableIds :
          FlushFailed(t) => InRegistry(t) /\ tasks[t].result \in {"err", "panic"}
    /\ flush_signal <= Cardinality(Signalled)

\* a flush failed on its write to the bucket and its table is still registered,
\* while another task flushed its table, left the registry and signalled
C39_Witness ==
    \E t \in TableIds, u \in TableIds :
        /\ FlushFailed(t)
        /\ tasks[t].entries # {}
        /\ InRegistry(t)
        /\ u \in Signalled
        /\ ~InRegistry(u)
        /\ flush_signal = 1

\* the task of table t is over: its handler returned or panicked
Terminated(t) == t \in TableIds /\ tasks[t].pc \in {"done", "failed", "panicked"}

\* task t holds no write guard
HoldsNoLock(t) == \A l \in Locks : guards.writer[l] # t

\* no task that is over, and no task outside the insert statement, holds a guard
GuardsOnlyInsideStatements ==
    \A l \in Locks :
        guards.writer[l] # 0 =>
            /\ guards.writer[l] \in TableIds
            /\ tasks[guards.writer[l]].pc \in WriterPcs(l)

\* C40: with any readers of the shared structures beside them and a fair
\* scheduler, every flush_handler task ends, in success or in failure, holding no
\* lock; the lock acquisitions never leave a task waiting for ever.
C40_FlushTasksTerminate ==
    /\ [](GuardsOnlyInsideStatements)
    /\ \A t \in 1..MaxLockTasks :
          (t \in TableIds) ~> (Terminated(t) /\ HoldsNoLock(t))

\* both tasks are over, one in failure after it held the BucketMap guard, the
\* other in success, while a reader holds a read guard
C40_Witness ==
    /\ \A t \in 1..MaxLockTasks : Terminated(t)
    /\ \E t \in TableIds : tasks[t].pc = "failed" /\ tasks[t].entries # {}
    /\ \E t \in TableIds : tasks[t].pc = "done"
    /\ \E r \in Readers : guards.reader[r] = "bucket_map"
    /\ \A l \in Locks : guards.writer[l] = 0

====
